---- MODULE Spec2Model ----
(***************************************************************************)
(* Schedule import of photonranch-calendar (src/import_schedules.py): the  *)
(* reconciliation of the calendar table, the projects backend and the      *)
(* schedule-tracking table with the schedule of the LCO site proxies.      *)
(*                                                                         *)
(* Strings that the code composes or compares are sequences of tokens:     *)
(*   a timestamp "....SS"  is <<t>>, "....SSZ" is <<t, 0>> (t in seconds), *)
(*   so that DynamoDB's string order is the lexicographic order StrGT;     *)
(*   a project id f"{name}#{created}" is <<name, "#", created>>.           *)
(* None (and the empty string, equally falsy in Python) is <<>>.           *)
(*                                                                         *)
(* Spec            invocations of import_all_schedules, one at a time       *)
(* SpecOverlap     two invocations in progress at once                      *)
(* SpecObservation one Observation object: validation and translation       *)
(* SpecTracker     the tracking table under calls of its set and its get    *)
(* SpecPreview     one call of the read path (src/scheduler_utils.py)       *)
(* SpecRace        two invocations while a new schedule is published        *)
(* SpecLive        the periodic trigger, with fairness, a fixed schedule    *)
(* SpecHandler     one request to the calendar API (src/handler.py)         *)
(***************************************************************************)
EXTENDS Integers, Sequences, FiniteSets, TLC

\* ------------------------------------------------------------------ bounds
MaxGen == 2          \* upstream schedule generations (last_schedule_time values)
MaxObs == 2          \* observations in one upstream schedule
MaxFaults == 2       \* failures of collaborators (secret store, proxy, tables, projects)
MaxInvocations == 2  \* invocations of import_all_schedules
MaxStored == 1       \* reservations in the calendar table before the first import
MaxPages == 2        \* pages of one DynamoDB query
MaxMissing == 2      \* required top-level keys an observation lacks
MaxConfigs == 2      \* configurations of one request
MaxLiveObs == 1      \* observations of a schedule under the periodic trigger
MaxHandlerEvents == 2  \* reservations in the store when the calendar API handles a request
MaxInsts == 2        \* instrument configs of one configuration

\* ------------------------------------------------------- site topology
SITES_TO_USE_WITH_SCHEDULER == <<"mrc", "aro", "eco">>

SITE_FROM_WEMA_AND_TELESCOPE_ID ==
    [w \in {"mrc", "aro", "eco"} |->
        CASE w = "mrc" -> [t \in {"0m31", "0m61"} |-> IF t = "0m31" THEN "mrc1" ELSE "mrc2"]
          [] w = "aro" -> [t \in {"0m3"} |-> "aro1"]
          [] w = "eco" -> [t \in {"0m43", "0m28"} |-> IF t = "0m43" THEN "eco1" ELSE "eco2"]]

Wemas == DOMAIN SITE_FROM_WEMA_AND_TELESCOPE_ID

\* the inversion loop of lines 51-54: ptr_site -> (wema, telescope id)
PTR_SITE_TO_WEMA_TELESCOPE ==
    LET pairs == {<<w, t>> \in Wemas \X {"0m31", "0m61", "0m3", "0m43", "0m28"} :
                      t \in DOMAIN SITE_FROM_WEMA_AND_TELESCOPE_ID[w]}
        sites == {SITE_FROM_WEMA_AND_TELESCOPE_ID[p[1]][p[2]] : p \in pairs}
    IN  [s \in sites |-> CHOOSE p \in pairs : SITE_FROM_WEMA_AND_TELESCOPE_ID[p[1]][p[2]] = s]

\* a per-WEMA list that leaves out the second telescope of a WEMA
PTR_SITES_PER_WEMA_first_only ==
    [w \in {"mrc", "aro", "eco"} |->
        CASE w = "mrc" -> <<"mrc1">>
          [] w = "aro" -> <<"aro1">>
          [] w = "eco" -> <<"eco1">>]

PTR_SITES_PER_WEMA ==
    [w \in {"mrc", "aro", "eco"} |->
        CASE w = "mrc" -> <<"mrc1", "mrc2">>
          [] w = "aro" -> <<"aro1">>
          [] w = "eco" -> <<"eco1", "eco2">>]

PtrSites == DOMAIN PTR_SITE_TO_WEMA_TELESCOPE

WemaOf(ptr_site) == PTR_SITE_TO_WEMA_TELESCOPE[ptr_site][1]
TelescopeOf(ptr_site) == PTR_SITE_TO_WEMA_TELESCOPE[ptr_site][2]

\* ------------------------------------------------------------- strings
None == <<>>

\* Python truthiness of an optional string
Truthy(s) == s # None

\* strftime("%Y-%m-%dT%H:%M:%S") of the clock: no zone suffix
StrfTime(t) == <<t>>

\* an ISO timestamp with the "Z" suffix, as the proxy and the calendar hold them
IsoZ(t) == <<t, 0>>

\* datetime.fromisoformat(s.replace('Z', '+00:00'))
FromIsoFormat(s) == s[1]

\* the order of DynamoDB (and Python) strings: lexicographic, a proper prefix is smaller
RECURSIVE StrGT(_, _)
StrGT(a, b) ==
    IF a = <<>> THEN FALSE
    ELSE IF b = <<>> THEN TRUE
    ELSE IF Head(a) # Head(b) THEN Head(a) > Head(b)
    ELSE StrGT(Tail(a), Tail(b))

\* f"{project_name}#{created_at}"
ProjectId(name, created) == <<name, "#", created>>

\* a creation time "<second>Z" and one with microseconds, "<second>.123456Z": the
\* tokens of the string, "." being a token of its own
CreatedAt(second) == <<second, "Z">>
CreatedAtMicro(second) == <<second, ".", "123456Z">>

\* date_str.split('.')[0]
RECURSIVE BeforeDot(_)
BeforeDot(date_str) ==
    IF date_str = <<>> \/ Head(date_str) = "." THEN <<>>
    ELSE <<Head(date_str)>> \o BeforeDot(Tail(date_str))

\* truncate_microseconds that keeps the string as it is
truncate_microseconds_keep(date_str) == date_str

\* truncate_microseconds: split('.')[0] + 'Z' when the string holds a '.'
truncate_microseconds(date_str) ==
    IF \E k \in 1..Len(date_str) : date_str[k] = "."
    THEN BeforeDot(date_str) \o <<"Z">>
    ELSE date_str

\* f'{observation["submitter"]}#LCO'
CreatorId(submitter) == <<submitter, "#LCO">>

\* a key that a dict does not hold
Absent == "absent"

SentinelNone == <<"none">>
SentinelNoneHash == <<"none", "#", "">>

RECURSIVE SeqToSet(_)
SeqToSet(s) == IF s = <<>> THEN {} ELSE {Head(s)} \cup SeqToSet(Tail(s))

RECURSIVE Flatten(_)
Flatten(ss) == IF ss = <<>> THEN <<>> ELSE Head(ss) \o Flatten(Tail(ss))

\* ------------------------------------------------------------ upstream
\* the WEMAs whose proxy holds observations in this model
ScheduledWemas == {"mrc"}

ObsNames == <<"obsA", "obsB", "obsC", "obsD">>

\* one observation of a site proxy: the fields the import reads. shape says whether
\* the record has every key the translation reads ("valid") or lacks one ("malformed")
ObsAt(w, k, tel, st, sh) ==
    [id |-> k, site |-> w, telescope |-> tel, state |-> st, shape |-> sh,
     name |-> ObsNames[k], created |-> CreatedAt("c"), start |-> IsoZ(k),
     end |-> IsoZ(k + 1), submitter |-> "sub", observation_type |-> "NORMAL"]

\* the observations a schedule of this model holds, as <<telescope, state, shape>>:
\* a valid PENDING one at either telescope, a malformed one, a cancelled one
ObsKinds(w) ==
    {<<t, "PENDING", "valid">> : t \in DOMAIN SITE_FROM_WEMA_AND_TELESCOPE_ID[w]}
    \cup {<<TelescopeOf(Head(PTR_SITES_PER_WEMA[w])), st[1], st[2]>> :
             st \in {<<"PENDING", "malformed">>, <<"CANCELED", "valid">>}}

\* the schedules a proxy may hold: up to MaxObs observations
SchedulesOf(w) ==
    UNION {
      { [k \in 1..n |-> ObsAt(w, k, f[k][1], f[k][2], f[k][3])] : f \in [1..n -> ObsKinds(w)] }
      : n \in 0..MaxObs }

\* ------------------------------------------------------------ the tables
\* reservations the calendar table may hold before the first import: written by the
\* handler (addNewEvent takes any body; removeProjectFromEvents sets "none")
StoredEvent(k, e, o, p) ==
    [event_id |-> -k, start |-> IsoZ(0), end |-> IsoZ(e), site |-> "mrc1",
     origin |-> o, project_id |-> p, creator_id |-> <<"user">>,
     project_priority |-> "standard", project_prioirty |-> Absent]

\* an imported reservation that ends after, at or before the clock's second, one
\* whose project was removed, and a user's reservation
StoredEvents ==
    {StoredEvent(k, 2, "LCO", p) :
        k \in 1..MaxStored, p \in {SentinelNone, SentinelNoneHash, ProjectId("old", "c")}}
    \cup {StoredEvent(k, e, "LCO", ProjectId("old", "c")) : k \in 1..MaxStored, e \in 0..1}
    \cup {StoredEvent(k, 2, "", SentinelNone) : k \in 1..MaxStored}

\* the primary key of the calendar table (conftest.py: event_id HASH, start RANGE)
KeyOf(r) == <<r.event_id, r.start>>

UniqueKeys(S) == \A a, b \in S : KeyOf(a) = KeyOf(b) => a = b

\* table.put_item: insert, replacing the item with the same primary key
PutItem(table, item) == {r \in table : KeyOf(r) # KeyOf(item)} \cup {item}

\* batch.delete_item for each key
DeleteKeys(table, keys) == {r \in table : KeyOf(r) \notin keys}

VARIABLES
    calendar,     \* the calendar table: a set of reservations
    projects,     \* the projects backend: the ids of the projects it holds
    tracking,     \* the schedule-tracking table: ptr_site -> last_schedule_time or None
    proxyGen,     \* wema -> generation of the proxy's schedule (0: none generated yet)
    upstream,     \* wema -> the observations of the proxy's schedule
    now,          \* the clock
    runs,         \* invocation -> the state of import_all_schedules
    nextId,       \* uuid4: the next fresh event id
    faults,       \* failures of collaborators so far
    invocations,  \* invocations so far
    hist,         \* ptr_site -> the last finished cycle of the site (history)
    lastClear,    \* the last call of clear_old_schedule (history)
    trackedBy,    \* ptr_site -> the cycle that wrote the tracking record (history)
    observation,        \* Observation.observation: the record one Observation wraps
    step,               \* where that Observation is: none, new, constructed, calendar, done, raised_*
    validation,         \* what validate_observation_format returned for it
    self_event_id,      \* Observation.calendar_event_id (0: not drawn)
    project,            \* Observation.project
    calendar_event,     \* Observation.calendar_event
    input,              \* the record as it was handed to Observation() (history)
    tracker,            \* the calls of the tracking table's set and get (history)
    preview,            \* the last call of the read path: its arguments and its outcome
    handled             \* the last request the calendar API handled: its inputs and its outcome

importVars == <<calendar, projects, tracking, proxyGen, upstream, now, runs, nextId,
                faults, invocations, hist, lastClear, trackedBy>>

obsVars == <<observation, step, validation, self_event_id, project, calendar_event, input>>

utilVars == <<tracker, preview, handled>>

vars == <<importVars, obsVars, utilVars>>

\* the invocations of import_all_schedules that may be in progress: the cron timer's
\* and an on-demand request's
RunIds == {1, 2}

\* the executions when invocations do not overlap: one at a time
Sequential == {1}

IdleRun ==
    [pc |-> "idle", mode |-> "none", queue |-> <<>>, site |-> "",
     proxy |-> None, tracked |-> None, lastResp |-> "none", trackedRead |-> "none",
     sched |-> <<>>, idx |-> 1, fetch |-> "none",
     attempted |-> {}, persisted |-> {}, eff |-> {},
     result |-> "none", results |-> <<>>, status |-> 0, ran |-> <<>>, error |-> "none"]

NoClear ==
    [site |-> "", cutoff |-> None, before |-> {}, pages |-> 0, deleted |-> {},
     returned |-> {}, called |-> FALSE, request |-> {}]

NoCycle == [outcome |-> "none", proxy |-> None]

NoValidation == [outcome |-> "none", reason |-> <<>>, inspected |-> 0]

\* no Observation object is followed
NoObservation ==
    /\ observation = <<>>
    /\ step = "none"
    /\ validation = NoValidation
    /\ self_event_id = 0
    /\ project = <<>>
    /\ calendar_event = <<>>
    /\ input = <<>>

\* no call of the tracker was followed, none of the read path was made, no request of
\* the calendar API was handled
NoTracker ==
    [set |-> [s \in PtrSites |-> None], call |-> "none", site |-> "", value |-> None,
     status |-> "none", got |-> None]

NoPreview ==
    [fn |-> "none", ptr_site |-> "", wema |-> "", telescope_id |-> None, start |-> None,
     end |-> None, observation_states |-> [given |-> FALSE, states |-> {}],
     resp |-> "none", calls |-> <<>>, raised |-> FALSE, caught |-> "none",
     result |-> <<>>]

\* no request of the calendar API was handled
NoHandled ==
    [fn |-> "none", principalId |-> <<>>, userRoles |-> {}, event_id |-> 0, start |-> None,
     modifiedEvent |-> <<>>, found |-> FALSE, statusCode |-> 0, raised |-> FALSE,
     before |-> {}]

NoCalls ==
    /\ tracker = NoTracker
    /\ preview = NoPreview
    /\ handled = NoHandled

Init ==
    /\ calendar \in {S \in SUBSET StoredEvents : Cardinality(S) <= MaxStored /\ UniqueKeys(S)}
    /\ projects = {r.project_id : r \in calendar} \ {SentinelNone, SentinelNoneHash}
    /\ tracking = [s \in PtrSites |-> None]
    /\ proxyGen = [w \in Wemas |-> 1]
    /\ upstream = [w \in Wemas |-> <<>>]
    /\ now = 1
    /\ runs = [i \in RunIds |-> IdleRun]
    /\ nextId = 1
    /\ faults = 0
    /\ invocations = 0
    /\ hist = [s \in PtrSites |-> NoCycle]
    /\ lastClear = NoClear
    /\ trackedBy = [s \in PtrSites |-> [written |-> FALSE, fetch |-> "none", all |-> FALSE]]
    /\ NoObservation
    /\ NoCalls

\* ------------------------------------------------------------ the calls
\* the driver's loop over the first WEMA only
AllSites_first_wema == PTR_SITES_PER_WEMA[SITES_TO_USE_WITH_SCHEDULER[1]]

\* import_all_schedules, lines 562-563: the sites in the order of the two loops
AllSites == Flatten([k \in 1..Len(SITES_TO_USE_WITH_SCHEDULER) |->
                        PTR_SITES_PER_WEMA[SITES_TO_USE_WITH_SCHEDULER[k]]])

\* the subsite path parameters an HTTP request may carry
SubsiteInputs == {"mrc1", "nosuch"}

\* the body of the proxy's answer to last_scheduled: with the field, or without it
LastScheduled(w, resp) ==
    IF resp = "nofield" THEN [x \in {} |-> None]
    ELSE [x \in {"last_schedule_time"} |-> IsoZ(proxyGen[w])]

\* get_last_schedule_time that does not look at the status code
get_last_schedule_time_any_status(w, resp) == IsoZ(proxyGen[w])

\* get_last_schedule_time, given the proxy's response: data.get('last_schedule_time', None)
\* of a 200, None otherwise
get_last_schedule_time(w, resp) ==
    IF resp \in {"ok", "nofield"}
    THEN LET data == LastScheduled(w, resp)
         IN  IF "last_schedule_time" \in DOMAIN data THEN data["last_schedule_time"] ELSE None
    ELSE None

\* get_last_tracked_schedule_time that finds no item
get_last_tracked_schedule_time_absent(ptr_site, read) == None

\* get_last_tracked_schedule_time that answers from a copy the failure does not reach
get_last_tracked_schedule_time_cached(ptr_site, read) == tracking[ptr_site]

\* get_last_tracked_schedule_time, given whether get_item succeeded
get_last_tracked_schedule_time(ptr_site, read) ==
    IF read = "ok" THEN tracking[ptr_site] ELSE None

\* the staleness test with < for <=
UpToDate_strict(last_proxy_schedule_time, last_tracked_schedule_time) ==
    /\ Truthy(last_tracked_schedule_time)
    /\ Truthy(last_proxy_schedule_time)
    /\ FromIsoFormat(last_proxy_schedule_time) < FromIsoFormat(last_tracked_schedule_time)

\* the staleness test of create_latest_schedule_for_subsite
UpToDate(last_proxy_schedule_time, last_tracked_schedule_time) ==
    /\ Truthy(last_tracked_schedule_time)
    /\ Truthy(last_proxy_schedule_time)
    /\ FromIsoFormat(last_proxy_schedule_time) <= FromIsoFormat(last_tracked_schedule_time)

\* get_schedule that keeps the observations of every state
get_schedule_any_state(w, telescope_id, resp) ==
    IF resp = "ok"
    THEN SelectSeq(upstream[w], LAMBDA x : x.telescope = telescope_id)
    ELSE <<>>

\* get_schedule, given the status of the proxy's response: the proxy filters by
\* telescope, the client keeps the PENDING observations
get_schedule(w, telescope_id, resp) ==
    IF resp = "ok"
    THEN SelectSeq(upstream[w], LAMBDA x : x.telescope = telescope_id /\ x.state = "PENDING")
    ELSE <<>>

\* remove_projects that knows one sentinel only
cleaned_ids_one_sentinel(project_ids) == project_ids \ {SentinelNone}

\* remove_projects: the ids of the request body
cleaned_ids(project_ids) == project_ids \ {SentinelNoneHash, SentinelNone}

\* a key condition on the end time alone
KeyCondition_any_site(r, ptr_site, cutoff_time) == StrGT(r.end, cutoff_time)

\* clear_old_schedule: the key condition and the filter of the query
KeyCondition(r, ptr_site, cutoff_time) == r.site = ptr_site /\ StrGT(r.end, cutoff_time)

\* the query without its filter
FilterExpression_none(r) == TRUE

FilterExpression(r) == r.origin = "LCO"

\* the numbers of pages a query may take: one when no item meets the key condition
PageCounts(matching) == IF matching = {} THEN {1} ELSE 1..MaxPages

\* the ways DynamoDB may cut the matching items, in index order (by end), into n pages
Pagings(matching, n) ==
    {pg \in [matching -> 1..n] : \A a, b \in matching : StrGT(b.end, a.end) => pg[a] <= pg[b]}

\* the Items of page k
PageItems(pg, k) == {r \in DOMAIN pg : pg[r] = k /\ FilterExpression(r)}

\* the deletion without the pagination loop
DeletedItems_first_page(pg, n) == PageItems(pg, 1)

\* the items deleted by the first query and by the pagination loop
DeletedItems(pg, n) == UNION {PageItems(pg, k) : k \in 1..n}

\* associated_projects: read from `items`, which holds the last query's Items
AssociatedProjects(pg, n) == {x.project_id : x \in PageItems(pg, n)}

\* update_last_schedule_time that loses the write
update_last_schedule_time_lost(table, ptr_site, schedule_time) == table

\* update_last_schedule_time: put_item into the tracking table
update_last_schedule_time(table, ptr_site, schedule_time) ==
    [table EXCEPT ![ptr_site] = schedule_time]

\* Observation.__init__: the lookup of the PTR site (a KeyError when it fails)
KnownTelescope(obs) ==
    /\ obs.site \in DOMAIN SITE_FROM_WEMA_AND_TELESCOPE_ID
    /\ obs.telescope \in DOMAIN SITE_FROM_WEMA_AND_TELESCOPE_ID[obs.site]

\* _translate_to_project and _translate_to_calendar raise on a record that lacks a key
TranslationRaises(obs) == obs.shape # "valid"

\* _translate_to_project: the project id
translate_to_project(obs) == ProjectId(obs.name, truncate_microseconds(obs.created))

\* lines 190 and 198-199: project_priority is "standard"; a time-critical type adds
\* the key "project_prioirty"
priority_keys(obs) ==
    [project_priority |-> "standard",
     project_prioirty |-> IF obs.observation_type \in {"RAPID_RESPONSE", "TIME_CRITICAL"}
                          THEN "time_critical" ELSE Absent]

\* the reservation filed under the WEMA instead of the PTR site
translate_to_calendar_wema(obs, calendar_event_id) ==
    [event_id |-> calendar_event_id, start |-> obs.start, end |-> obs.end,
     site |-> obs.site, origin |-> "LCO", project_id |-> translate_to_project(obs),
     creator_id |-> CreatorId(obs.submitter),
     project_priority |-> priority_keys(obs).project_priority,
     project_prioirty |-> priority_keys(obs).project_prioirty]

\* _translate_to_calendar: the reservation
translate_to_calendar(obs, calendar_event_id) ==
    [event_id |-> calendar_event_id, start |-> obs.start, end |-> obs.end,
     site |-> SITE_FROM_WEMA_AND_TELESCOPE_ID[obs.site][obs.telescope],
     origin |-> "LCO", project_id |-> translate_to_project(obs),
     creator_id |-> CreatorId(obs.submitter),
     project_priority |-> priority_keys(obs).project_priority,
     project_prioirty |-> priority_keys(obs).project_prioirty]

\* ------------------------------------------------- the observation record
\* A dict is held by the set of its keys and the values the code looks at. A number is
\* held with its Python type: "int", "float", "str" (the text of an integer) or "text"
\* (a string that is no number).
Num(type, whole, frac) == [type |-> type, whole |-> whole, frac |-> frac]

\* isinstance(x, int)
IsInt(x) == x.type = "int"

\* int(x): truncation of a float, the value of an integer text; ValueError otherwise
PyIntRaises(x) == x.type = "text"
PyInt(x) == x.whole

\* a number n/d in lowest terms (ra in degrees, in hours)
RECURSIVE GCD(_, _)
GCD(a, b) == IF b = 0 THEN a ELSE GCD(b, a % b)

Rat(n, d) == IF n = 0 THEN <<0, 1>> ELSE <<n \div GCD(n, d), d \div GCD(n, d)>>

\* x / k
DivideBy(x, k) == Rat(x[1], x[2] * k)

\* validate_observation_format: required_keys, in the order of the dict
required_keys ==
    <<"site", "start", "end", "submitter", "modified", "created", "name", "telescope",
      "observation_type", "request">>

required_configuration_keys == {"constraints", "instrument_configs", "target", "type"}
required_target_keys == {"ra", "dec"}
required_inst_config_keys ==
    {"exposure_count", "exposure_time", "mode", "extra_params", "optical_elements"}
ConstraintKeys == {"max_airmass", "max_lunar_phase", "min_lunar_distance"}
OffsetKeys == {"offset_dec", "offset_ra", "rotator_angle"}

\* an instrument config: its keys, the exposure count and time, the keys of
\* extra_params, and whether optical_elements holds a filter
GoodInst(n) ==
    [keys |-> required_inst_config_keys, exposure_count |-> Num("int", n, 0),
     exposure_time |-> 30, extra_params |-> OffsetKeys, filter |-> TRUE]

\* the {} that stands for a missing instrument_configs list (config.get default [{}])
EmptyInst == [GoodInst(0) EXCEPT !.keys = {}, !.extra_params = {}, !.filter = FALSE]

InstShapes ==
    {GoodInst(1), GoodInst(2),
     [GoodInst(2) EXCEPT !.exposure_count = Num("float", 2, 5)],
     [GoodInst(3) EXCEPT !.exposure_count = Num("str", 3, 0)],
     [GoodInst(0) EXCEPT !.exposure_count = Num("text", 0, 0)],
     [GoodInst(1) EXCEPT !.keys = @ \ {"mode"}],
     [GoodInst(1) EXCEPT !.keys = @ \ {"optical_elements"}, !.filter = FALSE],
     [GoodInst(1) EXCEPT !.extra_params = @ \ {"rotator_angle"}],
     [GoodInst(1) EXCEPT !.extra_params = @ \ {"offset_ra"}],
     [GoodInst(1) EXCEPT !.filter = FALSE]}

InstLists == UNION {[1..n -> InstShapes] : n \in 0..MaxInsts}

\* a configuration: its keys, the target (its keys, the type of ra and its value in
\* degrees), the constraints (their keys, whether the values are numbers) and the
\* instrument configs
GoodConfig(insts) ==
    [keys |-> required_configuration_keys,
     target |-> [keys |-> required_target_keys, ra |-> "float", ra_value |-> Rat(150, 1)],
     constraints |-> [keys |-> ConstraintKeys, numeric |-> TRUE],
     instrument_configs |-> insts]

PlainConfig == GoodConfig(<<GoodInst(1)>>)

\* a configuration without instrument_configs
RaisingConfig ==
    [PlainConfig EXCEPT !.keys = @ \ {"instrument_configs"}, !.instrument_configs = <<>>]

DeviantConfigs ==
    {[PlainConfig EXCEPT !.keys = @ \ {"type"}],
     RaisingConfig,
     [PlainConfig EXCEPT !.target.keys = {"ra"}],
     [PlainConfig EXCEPT !.target.keys = {"dec"}],
     [PlainConfig EXCEPT !.target.ra = "str"],
     [PlainConfig EXCEPT !.constraints.keys = @ \ {"max_airmass"}],
     [PlainConfig EXCEPT !.constraints.numeric = FALSE]}

\* a target whose ra is an int, and one whose ra is no multiple of 15
OtherTargets ==
    {[PlainConfig EXCEPT !.target.ra = "int"],
     [PlainConfig EXCEPT !.target.ra_value = Rat(10, 1)]}

ConfigShapes == {GoodConfig(insts) : insts \in InstLists} \cup DeviantConfigs \cup OtherTargets

\* the configurations lists: none, one of any shape, or plain ones followed by one
\* that deviates
ConfigLists ==
    {<<>>} \cup {<<c>> : c \in ConfigShapes}
    \cup UNION {{[k \in 1..n |-> IF k < n THEN PlainConfig ELSE c] :
                    c \in DeviantConfigs \cup {PlainConfig}} : n \in 2..MaxConfigs}

\* request: a dict with or without the configurations key
Requests ==
    {[has_configurations |-> FALSE, configurations |-> <<>>]}
    \cup {[has_configurations |-> TRUE, configurations |-> cs] : cs \in ConfigLists}

PlainRequest == [has_configurations |-> TRUE, configurations |-> <<PlainConfig>>]

\* an observation as the proxy sends it: the top-level keys it has, the values the
\* import reads, and the request
FullObservation(keys, telescope, request) ==
    [keys |-> keys, site |-> "mrc", telescope |-> telescope, name |-> "obsA",
     created |-> CreatedAt("c"), start |-> IsoZ(1), end |-> IsoZ(2), request |-> request,
     submitter |-> "sub", observation_type |-> "NORMAL"]

ObservationTypes == {"NORMAL", "RAPID_RESPONSE", "TIME_CRITICAL", "DIRECT"}

ObservationInputs ==
    {FullObservation(SeqToSet(required_keys), "0m31", rq) : rq \in Requests}
    \cup {FullObservation(SeqToSet(required_keys), "0m99", PlainRequest)}
    \cup {[FullObservation(SeqToSet(required_keys), tel, PlainRequest)
              EXCEPT !.observation_type = type, !.created = created] :
             tel \in DOMAIN SITE_FROM_WEMA_AND_TELESCOPE_ID["mrc"],
             type \in ObservationTypes,
             created \in {CreatedAt("c"), CreatedAtMicro("c")}}
    \cup {FullObservation(SeqToSet(required_keys) \ gone, "0m31", rq) :
             gone \in {g \in SUBSET SeqToSet(required_keys) :
                          g # {} /\ Cardinality(g) <= MaxMissing},
             rq \in {PlainRequest,
                     [PlainRequest EXCEPT !.configurations = <<RaisingConfig>>]}}

\* ------------------------------------------- validate_observation_format
\* validate_inst_config: True, False, or the KeyError of instrument_config["..."]
validate_inst_config(instrument_config) ==
    LET keys_are_present ==
            /\ required_inst_config_keys \subseteq instrument_config.keys
            /\ IsInt(instrument_config.exposure_count)
        filter_present == instrument_config.filter
        offsets_present == OffsetKeys \subseteq instrument_config.extra_params
    IN  IF "optical_elements" \notin instrument_config.keys THEN "raise"
        ELSE IF "extra_params" \notin instrument_config.keys THEN "raise"
        ELSE IF keys_are_present /\ filter_present /\ offsets_present THEN "true"
        ELSE "false"

\* all(validate_inst_config(c) for c in ...): stops at the first False
RECURSIVE AllInstConfigs(_)
AllInstConfigs(instrument_configs) ==
    IF instrument_configs = <<>> THEN "true"
    ELSE LET first == validate_inst_config(Head(instrument_configs))
         IN  IF first = "true" THEN AllInstConfigs(Tail(instrument_configs)) ELSE first

validate_target(target) ==
    /\ required_target_keys \subseteq target.keys
    /\ target.ra \in {"int", "float"}

\* validate_configuration: (passed, message), or the exception of an instrument config
validate_configuration(config) ==
    LET config_keys_present == required_configuration_keys \subseteq config.keys
        targets_ok == IF "target" \in config.keys THEN validate_target(config.target)
                      ELSE FALSE
        constraints_ok == /\ "constraints" \in config.keys
                          /\ ConstraintKeys \subseteq config.constraints.keys
        instrument_configs_ok ==
            AllInstConfigs(IF "instrument_configs" \in config.keys
                           THEN config.instrument_configs ELSE <<EmptyInst>>)
    IN  IF instrument_configs_ok = "raise" THEN [outcome |-> "raise", message |-> "KeyError"]
        ELSE IF ~config_keys_present
             THEN [outcome |-> "false", message |-> "Missing required keys in configuration"]
        ELSE IF ~targets_ok
             THEN [outcome |-> "false", message |-> "Targets failed validation"]
        ELSE IF ~constraints_ok
             THEN [outcome |-> "false", message |-> "Constraints failed validation"]
        ELSE IF instrument_configs_ok = "false"
             THEN [outcome |-> "false", message |-> "Instrument configs failed validation"]
        ELSE [outcome |-> "true", message |-> "Validation successful"]

\* str(index)
IndexText(index) == <<"0", "1", "2", "3">>[index + 1]

\* the loop over the configurations, from position index on; inspected counts the
\* configurations that validate_configuration was called on
RECURSIVE ValidateConfigurations(_, _)
ValidateConfigurations(configurations, index) ==
    IF configurations = <<>>
    THEN [outcome |-> "true", reason |-> <<"Validation successful">>, inspected |-> index]
    ELSE LET passed == validate_configuration(Head(configurations))
         IN  IF passed.outcome = "raise"
             THEN [outcome |-> "raise", reason |-> <<"KeyError">>, inspected |-> index + 1]
             ELSE IF passed.outcome = "false"
             THEN [outcome |-> "false",
                   reason |-> <<"Configuration number", IndexText(index),
                                "failed validation", passed.message>>,
                   inspected |-> index + 1]
             ELSE ValidateConfigurations(Tail(configurations), index + 1)

\* the missing keys, all but request
missing_keys_but_request(obs) ==
    SelectSeq(required_keys, LAMBDA key : key \notin obs.keys /\ key # "request")

\* [key for key in required_keys if key not in observation]
missing_keys(obs) ==
    SelectSeq(required_keys, LAMBDA key : key \notin obs.keys)

\* validate_observation_format: (True/False, reason), or the exception it ends with
validate_observation_format(obs) ==
    IF missing_keys(obs) # <<>>
    THEN [outcome |-> "false", reason |-> <<"Missing keys">> \o missing_keys(obs),
          inspected |-> 0]
    ELSE ValidateConfigurations(IF obs.request.has_configurations
                                THEN obs.request.configurations ELSE <<>>, 0)

\* ------------------------------------------------------- the translation
\* the exposure set of one instrument config (lines 279-296)
exposure_set(inst_config) ==
    [exposure |-> inst_config.exposure_time, count |-> PyInt(inst_config.exposure_count)]

\* the entry of remaining taken from the exposure time
remaining_entry_exposure(set) == set.exposure

\* project["remaining"].append(exposure_set["count"])
remaining_entry(set) == set.count

\* the loop over the instrument configs raises: a key is missing, or int() fails
InstConfigRaises(inst_config, configuration) ==
    \/ {"exposure_time", "exposure_count", "optical_elements", "mode", "extra_params"}
          \ inst_config.keys # {}
    \/ PyIntRaises(inst_config.exposure_count)
    \/ ~inst_config.filter
    \/ "type" \notin configuration.keys
    \/ {"offset_ra", "offset_dec"} \ inst_config.extra_params # {}

\* _translate_to_project raises before or at line 272, the division of ra
RaisesUpToDivision(obs) ==
    \/ "request" \notin obs.keys
    \/ ~obs.request.has_configurations
    \/ obs.request.configurations = <<>>
    \/ {"name", "created", "start", "end", "submitter"} \ obs.keys # {}
    \/ LET configuration == obs.request.configurations[1]
           insts == configuration.instrument_configs
       IN  \/ "instrument_configs" \notin configuration.keys
           \/ insts = <<>>
           \/ "extra_params" \notin insts[1].keys
           \/ {"offset_ra", "offset_dec"} \ insts[1].extra_params # {}
           \/ "constraints" \notin configuration.keys
           \/ ConstraintKeys \ configuration.constraints.keys # {}
           \/ ~configuration.constraints.numeric
           \/ "target" \notin configuration.keys
           \/ "ra" \notin configuration.target.keys
           \/ configuration.target.ra = "str"

\* _translate_to_project raises in the loop over the instrument configs
RaisesInLoop(obs) ==
    LET configuration == obs.request.configurations[1]
        insts == configuration.instrument_configs
    IN  \E k \in 1..Len(insts) : InstConfigRaises(insts[k], configuration)

\* _translate_to_project raises
ProjectTranslationRaises(obs) == RaisesUpToDivision(obs) \/ RaisesInLoop(obs)

\* project["project_targets"][0]["ra"] /= 15: true division, the result a float
degrees_to_hours(target) ==
    [target EXCEPT !.ra = "float", !.ra_value = DivideBy(@, 15)]

\* the observation after line 272: project_targets[0] is the target dict of the
\* observation's first configuration itself, so the division is made in the record
DividedObservation(obs) ==
    [obs EXCEPT !.request.configurations[1].target = degrees_to_hours(@)]

\* the configuration at the last index of the list
configuration_at_last_idx(obs) == obs.request.configurations[Len(obs.request.configurations)]

\* config_idx = 0; configuration = observation["request"]["configurations"][config_idx]
first_configuration(obs) == obs.request.configurations[1]

\* _translate_to_project: the project, for an observation it does not raise on
FullProject(obs, ptr_site, calendar_event_id) ==
    LET insts == first_configuration(obs).instrument_configs
        exposures == [k \in 1..Len(insts) |-> exposure_set(insts[k])]
    IN  [project_id |-> translate_to_project(obs),
         full_lco_observation |-> obs,
         project_targets |-> <<degrees_to_hours(first_configuration(obs).target)>>,
         project_sites |-> <<ptr_site>>,
         scheduled_with_events |-> <<calendar_event_id>>,
         exposures |-> exposures,
         project_data |-> [k \in 1..Len(insts) |-> <<>>],
         remaining |-> [k \in 1..Len(insts) |-> remaining_entry(exposures[k])]]

\* _translate_to_calendar raises, after the project translation
CalendarTranslationRaises(obs) ==
    {"start", "end", "submitter", "modified", "name", "observation_type"}
        \ obs.keys # {}

\* the lookup that rejects every subsite
KnownSubsite_none(ptr_site) == FALSE

\* create_latest_schedule_for_subsite, line 462: the subsite is in the topology
KnownSubsite(ptr_site) == ptr_site \in DOMAIN PTR_SITE_TO_WEMA_TELESCOPE

\* ------------------------------------------------------------- actions
Cost(outcome) == IF outcome \in {"ok", "skip", "none"} THEN 0 ELSE 1

\* the fields of a run that one cycle (create_latest_schedule_for_subsite) owns
StartCycle(r, ptr_site) ==
    [r EXCEPT !.pc = "staleness", !.site = ptr_site, !.proxy = None, !.tracked = None,
              !.lastResp = "none", !.trackedRead = "none", !.sched = <<>>, !.idx = 1, !.fetch = "none",
              !.attempted = {}, !.persisted = {}, !.eff = {}, !.result = "none",
              !.ran = Append(@, ptr_site), !.error = "none"]

\* the history of a cycle that ended with an exception
Raised(r) == [outcome |-> "raised", proxy |-> r.proxy]

\* import_all_schedules is invoked: for all sites (by the cron timer, or over HTTP
\* without path parameter), or over HTTP with the subsite path parameter
Invoke(i) ==
    /\ runs[i].pc \in {"idle", "done", "raised"}
    /\ invocations < MaxInvocations
    /\ invocations' = invocations + 1
    /\ \E mode \in {"all", "subsite"} :
       \E subsite \in (IF mode = "subsite" THEN SubsiteInputs ELSE {""}) :
          LET queue == IF mode = "subsite" THEN <<subsite>> ELSE AllSites
          IN  runs' = [runs EXCEPT ![i] =
                          StartCycle([IdleRun EXCEPT !.mode = mode, !.queue = queue],
                                     Head(queue))]
    /\ hist' = IF runs[i].pc = "raised"
               THEN [s \in PtrSites |-> IF s = runs[i].site THEN Raised(runs[i]) ELSE hist[s]]
               ELSE hist
    /\ UNCHANGED <<obsVars, utilVars>>
    /\ UNCHANGED <<calendar, projects, tracking, proxyGen, upstream, now, nextId,
                   faults, lastClear, trackedBy>>

\* create_latest_schedule_for_subsite, lines 462-478: resolve the site, read both
\* times, decide
Staleness(i) ==
    LET r == runs[i] IN
    /\ r.pc = "staleness"
    /\ IF ~KnownSubsite(r.site)
       THEN /\ runs' = [runs EXCEPT ![i] = [r EXCEPT !.pc = "end", !.result = "unknown"]]
            /\ UNCHANGED faults
       ELSE \E resp \in {"ok", "nofield", "non200", "raise"} :
            \E read \in (IF resp = "raise" THEN {"none"} ELSE {"ok", "error"}) :
               LET proxy == get_last_schedule_time(WemaOf(r.site), resp)
                   tracked == get_last_tracked_schedule_time(r.site, read)
                   seen == [r EXCEPT !.proxy = proxy, !.tracked = tracked,
                                     !.lastResp = resp, !.trackedRead = read]
               IN  /\ faults + Cost(resp) + Cost(read) <= MaxFaults
                   /\ faults' = faults + Cost(resp) + Cost(read)
                   /\ runs' = [runs EXCEPT ![i] =
                         IF resp = "raise" THEN [r EXCEPT !.pc = "raised"]
                         ELSE IF UpToDate(proxy, tracked)
                              THEN [seen EXCEPT !.pc = "end", !.result = "uptodate"]
                              ELSE [seen EXCEPT !.pc = "clear"]]
    /\ UNCHANGED <<obsVars, utilVars>>
    /\ UNCHANGED <<calendar, projects, tracking, proxyGen, upstream, now, nextId,
                   invocations, hist, lastClear, trackedBy>>

\* clear_old_schedule(ptr_site), with cutoff_time = now
Clear(i) ==
    LET r == runs[i]
        cutoff_time == StrfTime(now)
        matching == {x \in calendar : KeyCondition(x, r.site, cutoff_time)}
    IN
    /\ r.pc = "clear"
    /\ \E n \in PageCounts(matching) : \E pg \in Pagings(matching, n) :
          LET deleted == DeletedItems(pg, n)
              associated_projects == AssociatedProjects(pg, n)
          IN  \E post \in (IF associated_projects = {} THEN {"skip"}
                           ELSE {"ok", "rejected", "raise"}) :
                /\ faults + Cost(post) <= MaxFaults
                /\ faults' = faults + Cost(post)
                /\ calendar' = DeleteKeys(calendar, {KeyOf(x) : x \in deleted})
                /\ projects' = IF post = "ok"
                               THEN projects \ cleaned_ids(associated_projects)
                               ELSE projects
                /\ lastClear' = [site |-> r.site, cutoff |-> cutoff_time,
                                 before |-> calendar, pages |-> n, deleted |-> deleted,
                                 returned |-> associated_projects,
                                 called |-> post # "skip",
                                 request |-> IF post = "skip" THEN {}
                                             ELSE cleaned_ids(associated_projects)]
                /\ runs' = [runs EXCEPT ![i] =
                        [r EXCEPT !.pc = IF post = "raise" THEN "raised" ELSE "fetch",
                                  !.eff = @ \cup (IF deleted = {} THEN {} ELSE {"cal_delete"})
                                            \cup (IF post = "skip" THEN {} ELSE {"proj_delete"})]]
    /\ UNCHANGED <<obsVars, utilVars>>
    /\ UNCHANGED <<tracking, proxyGen, upstream, now, nextId, invocations, hist, trackedBy>>

\* the answers to a request to the proxy: a 200, another status, no secret for the
\* header (ssm.get_parameter raises), no connection (requests.get raises)
ProxyResponses == {"ok", "non200", "no_secret", "unreachable"}

ProxyRaises(resp) == resp \in {"no_secret", "unreachable"}

\* sched = get_schedule(wema, telescope_id)
Fetch(i) ==
    LET r == runs[i] IN
    /\ r.pc = "fetch"
    /\ \E resp \in ProxyResponses :
          LET sched == get_schedule(WemaOf(r.site), TelescopeOf(r.site), resp) IN
          /\ faults + Cost(resp) <= MaxFaults
          /\ faults' = faults + Cost(resp)
          /\ runs' = [runs EXCEPT ![i] =
                IF ProxyRaises(resp) THEN [r EXCEPT !.pc = "raised", !.error = resp]
                ELSE [r EXCEPT !.pc = IF sched = <<>> THEN "record" ELSE "create",
                               !.sched = sched, !.idx = 1, !.fetch = resp,
                               !.eff = @ \cup {"fetch"}]]
    /\ UNCHANGED <<obsVars, utilVars>>
    /\ UNCHANGED <<calendar, projects, tracking, proxyGen, upstream, now, nextId,
                   invocations, hist, lastClear, trackedBy>>

\* what one pass of the loop body may meet: Observation(obs) and the translation
\* raise on the record itself; put_item and the POST to new-project may fail
CreateOutcomes(obs) ==
    IF ~KnownTelescope(obs) \/ TranslationRaises(obs) THEN {"bad_record"}
    ELSE {"ok", "put_raise", "post_raise", "post_rejected"}

\* one pass of `for obs in sched`: Observation(obs).create_ptr_resources()
CreateItem(i) ==
    LET r == runs[i]
        obs == r.sched[r.idx]
    IN
    /\ r.pc = "create"
    /\ nextId <= MaxInvocations * MaxObs
    /\ \E out \in CreateOutcomes(obs) :
          LET failed == out \in {"bad_record", "put_raise", "post_raise"}
              put == out \in {"ok", "post_raise", "post_rejected"}
              posted == out \in {"ok", "post_raise", "post_rejected"}
          IN
          /\ faults + (IF out = "bad_record" THEN 0 ELSE Cost(out)) <= MaxFaults
          /\ faults' = faults + (IF out = "bad_record" THEN 0 ELSE Cost(out))
          /\ nextId' = IF out = "bad_record" THEN nextId ELSE nextId + 1
          /\ calendar' = IF put THEN PutItem(calendar, translate_to_calendar(obs, nextId))
                         ELSE calendar
          /\ projects' = IF out = "ok" THEN projects \cup {translate_to_project(obs)}
                         ELSE projects
          /\ runs' = [runs EXCEPT ![i] =
                [r EXCEPT !.pc = IF failed THEN "raised"
                                 ELSE IF r.idx = Len(r.sched) THEN "record" ELSE "create",
                          !.idx = IF failed THEN r.idx ELSE r.idx + 1,
                          !.attempted = @ \cup {r.idx},
                          !.persisted = @ \cup (IF out = "ok" THEN {r.idx} ELSE {}),
                          !.eff = @ \cup (IF put THEN {"cal_put"} ELSE {})
                                    \cup (IF posted THEN {"proj_create"} ELSE {})]]
    /\ UNCHANGED <<obsVars, utilVars>>
    /\ UNCHANGED <<tracking, proxyGen, upstream, now, invocations, hist, lastClear,
                   trackedBy>>

\* lines 491-495: update_last_schedule_time when a proxy time was obtained
Record(i) ==
    LET r == runs[i] IN
    /\ r.pc = "record"
    /\ \E put \in (IF Truthy(r.proxy) THEN {"ok", "raise"} ELSE {"skip"}) :
          /\ faults + Cost(put) <= MaxFaults
          /\ faults' = faults + Cost(put)
          /\ tracking' = IF put = "ok"
                         THEN update_last_schedule_time(tracking, r.site, r.proxy)
                         ELSE tracking
          /\ trackedBy' = IF put = "ok"
                          THEN [trackedBy EXCEPT ![r.site] =
                                  [written |-> TRUE, fetch |-> r.fetch,
                                   all |-> r.persisted = 1..Len(r.sched)]]
                          ELSE trackedBy
          /\ runs' = [runs EXCEPT ![i] =
                IF put = "raise" THEN [r EXCEPT !.pc = "raised"]
                ELSE [r EXCEPT !.pc = "end", !.result = "updated",
                               !.eff = @ \cup (IF put = "ok" THEN {"track_put"} ELSE {})]]
    /\ UNCHANGED <<obsVars, utilVars>>
    /\ UNCHANGED <<calendar, projects, proxyGen, upstream, now, nextId, invocations,
                   hist, lastClear>>

\* the cycle returned its status: import_all_schedules stores it and goes on to the
\* next site, or returns
Return(i) ==
    LET r == runs[i]
        results == IF r.mode = "subsite" THEN r.results
                   ELSE r.results @@ (r.site :> r.result)
    IN
    /\ r.pc = "end"
    /\ hist' = [s \in PtrSites |->
                  IF s = r.site THEN [outcome |-> r.result, proxy |-> r.proxy] ELSE hist[s]]
    /\ \E httpMethod \in (IF r.mode = "subsite" THEN {TRUE} ELSE BOOLEAN) :
          runs' = [runs EXCEPT ![i] =
             IF Len(r.queue) > 1
             THEN StartCycle([r EXCEPT !.queue = Tail(r.queue), !.results = results],
                             r.queue[2])
             ELSE [r EXCEPT !.pc = "done", !.queue = <<>>, !.results = results,
                            !.status = IF httpMethod THEN 200 ELSE 0]]
    /\ UNCHANGED <<obsVars, utilVars>>
    /\ UNCHANGED <<calendar, projects, tracking, proxyGen, upstream, now, nextId,
                   faults, invocations, lastClear, trackedBy>>

\* the LCO scheduler publishes a new schedule at a proxy
Reschedule(w) ==
    /\ w \in ScheduledWemas
    /\ \A i \in RunIds : runs[i].pc \in {"idle", "done", "raised", "fetch"}
    /\ proxyGen[w] < MaxGen
    /\ proxyGen' = [proxyGen EXCEPT ![w] = @ + 1]
    /\ \E sched \in SchedulesOf(w) : upstream' = [upstream EXCEPT ![w] = sched]
    /\ UNCHANGED <<obsVars, utilVars>>
    /\ UNCHANGED <<calendar, projects, tracking, now, runs, nextId, faults, invocations,
                   hist, lastClear, trackedBy>>

\* hasattr(self, ...) that never finds the attribute
HasAttr_never(attribute) == FALSE

\* hasattr(self, 'project'), hasattr(self, 'calendar_event')
HasAttr(attribute) == attribute # <<>>

\* _translate_to_project on the record obs: whether it raised, the record afterwards
\* and self.project
TranslateToProject(obs, ptr_site, calendar_event_id) ==
    IF RaisesUpToDivision(obs)
    THEN [raised |-> TRUE, observation |-> obs, project |-> <<>>]
    ELSE IF RaisesInLoop(obs)
    THEN [raised |-> TRUE, observation |-> DividedObservation(obs), project |-> <<>>]
    ELSE [raised |-> FALSE, observation |-> DividedObservation(obs),
          project |-> FullProject(obs, ptr_site, calendar_event_id)]

\* if not hasattr(self, 'project'): self._translate_to_project()
EnsureProject(obs, proj, ptr_site, calendar_event_id) ==
    IF HasAttr(proj) THEN [raised |-> FALSE, observation |-> obs, project |-> proj]
    ELSE TranslateToProject(obs, ptr_site, calendar_event_id)

\* Observation(obs), lines 90-98: the validation (printed only), the lookup of the PTR
\* site, the event id
Observation_init ==
    /\ step = "new"
    /\ validation' = validate_observation_format(observation)
    /\ IF \/ validation'.outcome = "raise"
          \/ {"site", "telescope"} \ observation.keys # {}
          \/ ~KnownTelescope(observation)
       THEN /\ step' = "raised_init"
            /\ UNCHANGED <<self_event_id, nextId>>
       ELSE /\ step' = "constructed"
            /\ self_event_id' = nextId
            /\ nextId' = nextId + 1
    /\ UNCHANGED <<observation, project, calendar_event, input>>
    /\ UNCHANGED utilVars
    /\ UNCHANGED <<calendar, projects, tracking, proxyGen, upstream, now, runs,
                   faults, invocations, hist, lastClear, trackedBy>>

\* create_calendar, lines 305-310: both translations, then the put
create_calendar ==
    /\ step = "constructed"
    /\ LET ptr_site == SITE_FROM_WEMA_AND_TELESCOPE_ID[observation.site][observation.telescope]
           translated == IF HasAttr(calendar_event)
                         THEN [raised |-> FALSE, observation |-> observation,
                               project |-> project]
                         ELSE EnsureProject(observation, project, ptr_site, self_event_id)
       IN  /\ observation' = translated.observation
           /\ project' = translated.project
           /\ IF translated.raised \/ CalendarTranslationRaises(observation)
              THEN /\ step' = "raised_translation"
                   /\ UNCHANGED <<calendar_event, calendar>>
              ELSE /\ calendar_event' = IF HasAttr(calendar_event) THEN calendar_event
                                        ELSE translate_to_calendar(observation, self_event_id)
                   /\ calendar' = PutItem(calendar, calendar_event')
                   /\ step' = "calendar"
    /\ UNCHANGED <<validation, self_event_id, input>>
    /\ UNCHANGED utilVars
    /\ UNCHANGED <<projects, tracking, proxyGen, upstream, now, runs, nextId,
                   faults, invocations, hist, lastClear, trackedBy>>

\* create_project, lines 312-318: the translation if there is no project yet, then
\* the POST of the project
create_project ==
    /\ step = "calendar"
    /\ LET ptr_site == SITE_FROM_WEMA_AND_TELESCOPE_ID[observation.site][observation.telescope]
           translated == EnsureProject(observation, project, ptr_site, self_event_id)
       IN  /\ observation' = translated.observation
           /\ project' = translated.project
           /\ IF translated.raised
              THEN /\ step' = "raised_translation"
                   /\ UNCHANGED projects
              ELSE /\ projects' = projects \cup {project'.project_id}
                   /\ step' = "done"
    /\ UNCHANGED <<validation, self_event_id, calendar_event, input>>
    /\ UNCHANGED utilVars
    /\ UNCHANGED <<calendar, tracking, proxyGen, upstream, now, runs, nextId,
                   faults, invocations, hist, lastClear, trackedBy>>

\* update_last_schedule_time(ptr_site, schedule_time), called on its own: put_item
\* writes the item or raises
SetTracked ==
    \E ptr_site \in PtrSites : \E t \in 1..MaxGen : \E put \in {"ok", "raise"} :
        /\ tracking' = IF put = "ok"
                       THEN update_last_schedule_time(tracking, ptr_site, IsoZ(t))
                       ELSE tracking
        /\ tracker' = [set |-> IF put = "ok" THEN [tracker.set EXCEPT ![ptr_site] = IsoZ(t)]
                               ELSE tracker.set,
                       call |-> "set", site |-> ptr_site, value |-> IsoZ(t),
                       status |-> put, got |-> None]
        /\ UNCHANGED <<calendar, projects, proxyGen, upstream, now, runs, nextId, faults,
                       invocations, hist, lastClear, trackedBy>>
        /\ UNCHANGED <<obsVars, preview, handled>>

\* get_last_tracked_schedule_time(ptr_site), called on its own: get_item answers or
\* raises
GetTracked ==
    \E ptr_site \in PtrSites : \E read \in {"ok", "error"} :
        /\ tracker' = [tracker EXCEPT !.call = "get", !.site = ptr_site, !.value = None,
                                      !.status = read,
                                      !.got = get_last_tracked_schedule_time(ptr_site, read)]
        /\ UNCHANGED importVars
        /\ UNCHANGED <<obsVars, preview, handled>>

\* ------------------------------------------------- the read path (preview)
\* scheduler_utils.ALL_OBSERVATION_STATES
ALL_OBSERVATION_STATES ==
    {"PENDING", "IN_PROGRESS", "NOT_ATTEMPTED", "COMPLETED", "CANCELED", "ABORTED", "FAILED"}

\* timedelta(days=21), in the clock's unit
Days21 == 3

\* the start and end a caller may pass: None, or a second
WindowArgs == {None} \cup {IsoZ(t) : t \in 1..Days21}

\* the observation_states a caller may pass: None, or a list of states
StateFilters ==
    {[given |-> FALSE, states |-> {}]}
    \cup {[given |-> TRUE, states |-> S] : S \in {{}, {"PENDING"}, {"CANCELED", "FAILED"},
                                                  ALL_OBSERVATION_STATES}}

\* the logical sites a caller of the read path may name
PreviewSites == {"mrc1", "mrc2", "nosuch"}

\* the keys an observation of shape "malformed" may lack
MissingKeys == {"submitter", "configurations"}

\* str(observation["id"])
PyStr(n) == <<n>>

\* the proxy's answer to schedule?start=..&end=..[&telescope=..]: the observations of
\* the telescope (of every telescope without the parameter) that overlap the window
ProxySchedule(w, telescope_id, start, end) ==
    SelectSeq(upstream[w],
              LAMBDA x : /\ (Truthy(telescope_id) => x.telescope = telescope_id[1])
                         /\ FromIsoFormat(x.start) <= FromIsoFormat(end)
                         /\ FromIsoFormat(x.end) >= FromIsoFormat(start))

\* lines 76-80 (and 345-349 of import_schedules.py): the window starts now and ends
\* in three weeks by default
WindowStart(start) == IF start = None THEN StrfTime(now) ELSE start
WindowEnd(end) == IF end = None THEN StrfTime(now + Days21) ELSE end

\* get_full_schedule that ignores observation_states
get_full_schedule_unfiltered(w, telescope_id, start, end, observation_states, resp) ==
    IF resp = "ok"
    THEN ProxySchedule(w, telescope_id, WindowStart(start), WindowEnd(end))
    ELSE <<>>

\* scheduler_utils.get_full_schedule, given the status of the proxy's response
get_full_schedule(w, telescope_id, start, end, observation_states, resp) ==
    IF resp = "ok"
    THEN LET sched == ProxySchedule(w, telescope_id, WindowStart(start), WindowEnd(end))
         IN  IF observation_states.given
             THEN SelectSeq(sched, LAMBDA o : o.state \in observation_states.states)
             ELSE sched
    ELSE <<>>

\* import_schedules.get_schedule with a window, given the status of the response
get_schedule_between(w, telescope_id, start, end, resp) ==
    IF resp = "ok"
    THEN SelectSeq(ProxySchedule(w, telescope_id, WindowStart(start), WindowEnd(end)),
                   LAMBDA x : x.state = "PENDING")
    ELSE <<>>

\* the entry of one observation (lines 131-147)
formatted_obs(obs, ptr_site) ==
    [event_id |-> PyStr(obs.id), start |-> obs.start, end |-> obs.end,
     creator |-> obs.submitter, creator_id |-> CreatorId(obs.submitter),
     reservation_type |-> "observation", origin |-> "LCO", resourceId |-> ptr_site,
     site |-> ptr_site, observation_type |-> obs.observation_type,
     observation_data |-> obs]

\* the loop over the schedule raises a KeyError: an observation lacks a key it reads
FormatRaises(schedule, missing) ==
    \E k \in 1..Len(schedule) : schedule[k].shape # "valid" /\ missing = "submitter"

\* the exception that ends the try block, or "none"
ExceptionIn(schedule, resp, missing) ==
    IF ProxyRaises(resp) THEN resp
    ELSE IF FormatRaises(schedule, missing) THEN "KeyError"
    ELSE "none"

\* a try block whose exception reaches the caller
FormattedOutcome_propagates(exception, schedule, ptr_site) ==
    [raised |-> exception # "none", caught |-> "none",
     result |-> IF exception # "none" THEN <<>>
                ELSE [k \in 1..Len(schedule) |-> formatted_obs(schedule[k], ptr_site)]]

\* lines 122-155: the formatted observations, or [] when anything raised
FormattedOutcome(exception, schedule, ptr_site) ==
    [raised |-> FALSE, caught |-> exception,
     result |-> IF exception # "none" THEN <<>>
                ELSE [k \in 1..Len(schedule) |-> formatted_obs(schedule[k], ptr_site)]]

\* the calls to the collaborators that one fetch makes: the secret, then the request
FetchCalls(resp) == IF resp = "no_secret" THEN <<"secret">> ELSE <<"secret", "fetch">>

\* scheduler_utils.get_full_schedule is called
CallGetFullSchedule ==
    /\ preview.fn = "none"
    /\ \E w \in ScheduledWemas :
       \E telescope_id \in {None} \cup {<<t>> : t \in DOMAIN SITE_FROM_WEMA_AND_TELESCOPE_ID[w]} :
       \E start \in WindowArgs : \E end \in WindowArgs :
       \E observation_states \in StateFilters : \E resp \in ProxyResponses :
           /\ preview' =
                 [fn |-> "get_full_schedule", ptr_site |-> "", wema |-> w,
                  telescope_id |-> telescope_id, start |-> start, end |-> end,
                  observation_states |-> observation_states, resp |-> resp,
                  calls |-> FetchCalls(resp), raised |-> ProxyRaises(resp), caught |-> "none",
                  result |-> get_full_schedule(w, telescope_id, start, end,
                                               observation_states, resp)]
           /\ UNCHANGED importVars
           /\ UNCHANGED <<obsVars, tracker, handled>>

\* scheduler_utils.get_formatted_observations(ptr_site, start, end)
CallGetFormattedObservations ==
    /\ preview.fn = "none"
    /\ \E ptr_site \in PreviewSites : \E start \in WindowArgs \ {None} :
       \E end \in WindowArgs \ {None} : \E resp \in ProxyResponses : \E missing \in MissingKeys :
           /\ preview' =
                 IF ~KnownSubsite(ptr_site)
                 THEN [NoPreview EXCEPT !.fn = "scheduler_utils.get_formatted_observations",
                                        !.ptr_site = ptr_site, !.start = start, !.end = end]
                 ELSE LET states == [given |-> TRUE, states |-> ALL_OBSERVATION_STATES]
                          schedule == get_full_schedule(WemaOf(ptr_site), <<TelescopeOf(ptr_site)>>,
                                                        start, end, states, resp)
                          outcome == FormattedOutcome(ExceptionIn(schedule, resp, missing),
                                                      schedule, ptr_site)
                      IN  [fn |-> "scheduler_utils.get_formatted_observations",
                           ptr_site |-> ptr_site, wema |-> WemaOf(ptr_site),
                           telescope_id |-> <<TelescopeOf(ptr_site)>>, start |-> start,
                           end |-> end, observation_states |-> states, resp |-> resp,
                           calls |-> FetchCalls(resp), raised |-> outcome.raised,
                           caught |-> outcome.caught, result |-> outcome.result]
           /\ UNCHANGED importVars
           /\ UNCHANGED <<obsVars, tracker, handled>>

\* import_schedules.get_formatted_observations(ptr_site, start, end): the fetch is
\* get_schedule's, which keeps the PENDING observations
CallImportGetFormattedObservations ==
    /\ preview.fn = "none"
    /\ \E ptr_site \in PreviewSites : \E start \in WindowArgs \ {None} :
       \E end \in WindowArgs \ {None} : \E resp \in ProxyResponses : \E missing \in MissingKeys :
           /\ preview' =
                 IF ~KnownSubsite(ptr_site)
                 THEN [NoPreview EXCEPT !.fn = "import_schedules.get_formatted_observations",
                                        !.ptr_site = ptr_site, !.start = start, !.end = end]
                 ELSE LET sched == get_schedule_between(WemaOf(ptr_site), <<TelescopeOf(ptr_site)>>,
                                                        start, end, resp)
                          outcome == FormattedOutcome(ExceptionIn(sched, resp, missing),
                                                      sched, ptr_site)
                      IN  [fn |-> "import_schedules.get_formatted_observations",
                           ptr_site |-> ptr_site, wema |-> WemaOf(ptr_site),
                           telescope_id |-> <<TelescopeOf(ptr_site)>>, start |-> start,
                           end |-> end,
                           observation_states |-> [given |-> TRUE, states |-> {"PENDING"}],
                           resp |-> resp,
                           calls |-> FetchCalls(resp), raised |-> outcome.raised,
                           caught |-> outcome.caught, result |-> outcome.result]
           /\ UNCHANGED importVars
           /\ UNCHANGED <<obsVars, tracker, handled>>

\* ------------------------------------------- the calendar API (handler.py)
\* the users the authorizer lets in (principalId is the token's sub), and the
\* userRoles it hands over
Principals == {<<"alice">>, <<"bob">>}

UserRoles == {{}, {"admin"}}

\* the creator_id of an item that has no such attribute
NoCreator == <<Absent>>

\* a reservation as the API stores it
HandlerEvent(k, st, e, creator) ==
    [event_id |-> k, start |-> IsoZ(st), end |-> IsoZ(e), site |-> "mrc1",
     origin |-> "", project_id |-> SentinelNone, creator_id |-> creator,
     project_priority |-> "standard", project_prioirty |-> Absent,
     last_modified |-> IsoZ(0)]

\* the reservations the store may hold: a user's, an imported one's creator, one
\* without creator_id (addNewEvent takes any body)
HandlerEvents ==
    {HandlerEvent(k, st, 2, creator) :
        k \in 1..2, st \in 0..1, creator \in Principals \cup {CreatorId("sub"), NoCreator}}

\* the modifiedEvent of a request body: any start and end, and whatever event_id and
\* creator_id the client supplies
ModifiedEvents ==
    {HandlerEvent(k, st, 3, creator) : k \in 1..2, st \in 0..1, creator \in Principals}

\* getEvent: response['Item'], or '' when get_item raised or found no item
getEvent(table, eventId, eventStart, read) ==
    LET items == {x \in table : KeyOf(x) = <<eventId, eventStart>>}
    IN  IF read = "ok" /\ items # {} THEN CHOOSE x \in items : TRUE ELSE <<>>

\* a condition that every requester passes (utils.delete_calendar_event's default)
ConditionExpression_requester_is_admin(item, requesterIsAdmin, requester_id) == TRUE

\* ":requesterIsAdmin = :true OR creator_id = :requester_id", on the item under the key
\* (<<>>: there is none)
ConditionExpression(item, requesterIsAdmin, requester_id) ==
    \/ requesterIsAdmin = "true"
    \/ /\ item # <<>>
       /\ item.creator_id # NoCreator
       /\ item.creator_id = requester_id

\* deleteEventById: the conditional delete_item; a failed condition and any other
\* ClientError are answered with a 403
deleteEventById ==
    /\ handled.fn = "none"
    /\ \E userMakingThisRequest \in Principals : \E userRoles \in UserRoles :
       \E eventToDelete \in 1..2 : \E startTime \in {IsoZ(0), IsoZ(1)} :
       \E dynamo \in {"ok", "ClientError"} :
          LET requesterIsAdmin == IF "admin" \in userRoles THEN "true" ELSE "false"
              item == getEvent(calendar, eventToDelete, startTime, "ok")
              passed == ConditionExpression(item, requesterIsAdmin, userMakingThisRequest)
              deleted == dynamo = "ok" /\ passed
          IN  /\ calendar' = IF deleted
                             THEN DeleteKeys(calendar, {<<eventToDelete, startTime>>})
                             ELSE calendar
              /\ handled' = [NoHandled EXCEPT
                                !.fn = "deleteEventById",
                                !.principalId = userMakingThisRequest,
                                !.userRoles = userRoles,
                                !.event_id = eventToDelete, !.start = startTime,
                                !.found = item # <<>>,
                                !.statusCode = IF deleted THEN 200 ELSE 403,
                                !.before = calendar]
    /\ UNCHANGED <<projects, tracking, proxyGen, upstream, now, runs, nextId, faults,
                   invocations, hist, lastClear, trackedBy>>
    /\ UNCHANGED <<obsVars, tracker, preview>>

\* the modifiedEvent as the client sent it
EnsureUnchanged_as_sent(modifiedEvent, originalId, creatorId, time) ==
    [modifiedEvent EXCEPT !.last_modified = time]

\* modifiedEvent['event_id'] = originalId; modifiedEvent['creator_id'] = creatorId;
\* modifiedEvent['last_modified'] = get_utc_iso_time()
EnsureUnchanged(modifiedEvent, originalId, creatorId, time) ==
    [modifiedEvent EXCEPT !.event_id = originalId, !.creator_id = creatorId,
                          !.last_modified = time]

\* modifyEvent: the lookup of the creator (an exception when there is no item, or no
\* creator_id in it), the 403 for a requester who is neither the creator nor an admin,
\* then delete_item of the original key and put_item of the modified event; either
\* call may raise
modifyEvent ==
    /\ handled.fn = "none"
    /\ \E userMakingThisRequest \in Principals : \E userRoles \in UserRoles :
       \E originalId \in 1..2 : \E originalStart \in {IsoZ(0), IsoZ(1)} :
       \E modifiedEvent \in ModifiedEvents :
       \E read \in {"ok", "error"} : \E write \in {"ok", "delete_raise", "put_raise"} :
          LET original == getEvent(calendar, originalId, originalStart, read)
              lookup_raises == original = <<>> \/ original.creator_id = NoCreator
              creatorId == original.creator_id
              refused == creatorId # userMakingThisRequest /\ "admin" \notin userRoles
              outcome == IF lookup_raises THEN "lookup_raise"
                         ELSE IF refused THEN "403"
                         ELSE write
              removed == DeleteKeys(calendar, {<<originalId, originalStart>>})
          IN  /\ calendar' =
                    IF outcome = "ok"
                    THEN PutItem(removed, EnsureUnchanged(modifiedEvent, originalId,
                                                          creatorId, IsoZ(now)))
                    ELSE IF outcome = "put_raise" THEN removed
                    ELSE calendar
              /\ handled' = [NoHandled EXCEPT
                                !.fn = "modifyEvent",
                                !.principalId = userMakingThisRequest,
                                !.userRoles = userRoles,
                                !.event_id = originalId, !.start = originalStart,
                                !.modifiedEvent = modifiedEvent,
                                !.found = original # <<>>,
                                !.statusCode = IF outcome = "ok" THEN 200
                                               ELSE IF outcome = "403" THEN 403 ELSE 0,
                                !.raised = outcome \in {"lookup_raise", "delete_raise",
                                                        "put_raise"},
                                !.before = calendar]
    /\ UNCHANGED <<projects, tracking, proxyGen, upstream, now, runs, nextId, faults,
                   invocations, hist, lastClear, trackedBy>>
    /\ UNCHANGED <<obsVars, tracker, preview>>

Next ==
    \/ \E i \in Sequential : Invoke(i)
    \/ \E i \in Sequential : Staleness(i)
    \/ \E i \in Sequential : Clear(i)
    \/ \E i \in Sequential : Fetch(i)
    \/ \E i \in Sequential : CreateItem(i)
    \/ \E i \in Sequential : Record(i)
    \/ \E i \in Sequential : Return(i)
    \/ \E w \in ScheduledWemas : Reschedule(w)

Spec == Init /\ [][Next]_vars

\* overlapping invocations (the timer's and an on-demand request's): the proxy of mrc
\* holds a schedule, the tables are empty, and no collaborator fails (the failures the
\* model allows are used up)
InitOverlap ==
    /\ calendar = {}
    /\ projects = {}
    /\ tracking = [s \in PtrSites |-> None]
    /\ proxyGen = [w \in Wemas |-> 1]
    /\ upstream \in {[w \in Wemas |-> IF w \in ScheduledWemas THEN sched ELSE <<>>] :
                        sched \in UNION {SchedulesOf(w) : w \in ScheduledWemas}}
    /\ now = 1
    /\ runs = [i \in RunIds |-> IdleRun]
    /\ nextId = 1
    /\ faults = MaxFaults
    /\ invocations = 0
    /\ hist = [s \in PtrSites |-> NoCycle]
    /\ lastClear = NoClear
    /\ trackedBy = [s \in PtrSites |-> [written |-> FALSE, fetch |-> "none", all |-> FALSE]]
    /\ NoObservation
    /\ NoCalls

NextOverlap ==
    \/ \E i \in RunIds : Invoke(i)
    \/ \E i \in RunIds : Staleness(i)
    \/ \E i \in RunIds : Clear(i)
    \/ \E i \in RunIds : Fetch(i)
    \/ \E i \in RunIds : CreateItem(i)
    \/ \E i \in RunIds : Record(i)
    \/ \E i \in RunIds : Return(i)

SpecOverlap == InitOverlap /\ [][NextOverlap]_vars

\* an on-demand request for mrc1 has just been accepted, another invocation may start
\* while it runs, and the LCO scheduler may publish a new schedule: the tables are
\* empty, the proxies hold an empty first schedule, no collaborator fails
InitRace ==
    /\ calendar = {}
    /\ projects = {}
    /\ tracking = [s \in PtrSites |-> None]
    /\ proxyGen = [w \in Wemas |-> 1]
    /\ upstream = [w \in Wemas |-> <<>>]
    /\ now = 1
    /\ runs = [i \in RunIds |->
                  IF i = 1
                  THEN StartCycle([IdleRun EXCEPT !.mode = "subsite", !.queue = <<"mrc1">>],
                                  "mrc1")
                  ELSE IdleRun]
    /\ nextId = 1
    /\ faults = MaxFaults
    /\ invocations = 1
    /\ hist = [s \in PtrSites |-> NoCycle]
    /\ lastClear = NoClear
    /\ trackedBy = [s \in PtrSites |-> [written |-> FALSE, fetch |-> "none", all |-> FALSE]]
    /\ NoObservation
    /\ NoCalls

NextRace ==
    \/ \E i \in RunIds : Invoke(i)
    \/ \E i \in RunIds : Staleness(i)
    \/ \E i \in RunIds : Clear(i)
    \/ \E i \in RunIds : Fetch(i)
    \/ \E i \in RunIds : CreateItem(i)
    \/ \E i \in RunIds : Record(i)
    \/ \E i \in RunIds : Return(i)
    \/ \E w \in ScheduledWemas : Reschedule(w)

SpecRace == InitRace /\ [][NextRace]_vars

\* the periodic trigger: the timer invokes import_all_schedules with no site, each
\* time the previous invocation has ended; the bound on invocations does not count it
TimerFires(i) ==
    /\ runs[i].pc \in {"idle", "done", "raised"}
    /\ runs' = [runs EXCEPT ![i] =
                   StartCycle([IdleRun EXCEPT !.mode = "all", !.queue = AllSites],
                              Head(AllSites))]
    /\ hist' = IF runs[i].pc = "raised"
               THEN [s \in PtrSites |-> IF s = runs[i].site THEN Raised(runs[i]) ELSE hist[s]]
               ELSE hist
    /\ UNCHANGED <<obsVars, utilVars>>
    /\ UNCHANGED <<calendar, projects, tracking, proxyGen, upstream, now, nextId,
                   faults, invocations, lastClear, trackedBy>>

\* the schedules of the periodic runs: up to MaxLiveObs observations
LiveSchedules(w) == {sched \in SchedulesOf(w) : Len(sched) <= MaxLiveObs}

\* the periodic trigger over a schedule that stays as it is: the tables are empty, the
\* proxy of mrc holds a schedule, every remote call succeeds (the failures the model
\* allows are used up)
InitLive ==
    /\ calendar = {}
    /\ projects = {}
    /\ tracking = [s \in PtrSites |-> None]
    /\ proxyGen = [w \in Wemas |-> 1]
    /\ upstream \in {[w \in Wemas |-> IF w \in ScheduledWemas THEN sched ELSE <<>>] :
                        sched \in UNION {LiveSchedules(w) : w \in ScheduledWemas}}
    /\ now = 1
    /\ runs = [i \in RunIds |-> IdleRun]
    /\ nextId = 1
    /\ faults = MaxFaults
    /\ invocations = 0
    /\ hist = [s \in PtrSites |-> NoCycle]
    /\ lastClear = NoClear
    /\ trackedBy = [s \in PtrSites |-> [written |-> FALSE, fetch |-> "none", all |-> FALSE]]
    /\ NoObservation
    /\ NoCalls

NextLive ==
    \/ \E i \in Sequential : TimerFires(i)
    \/ \E i \in Sequential : Staleness(i)
    \/ \E i \in Sequential : Clear(i)
    \/ \E i \in Sequential : Fetch(i)
    \/ \E i \in Sequential : CreateItem(i)
    \/ \E i \in Sequential : Record(i)
    \/ \E i \in Sequential : Return(i)

\* the trigger is periodic and an invocation runs to its end: a step that can be
\* taken is taken
SpecLive == InitLive /\ [][NextLive]_vars /\ WF_vars(NextLive)

\* one Observation object, for every observation record of the model
InitObservation ==
    /\ calendar = {}
    /\ projects = {}
    /\ tracking = [s \in PtrSites |-> None]
    /\ proxyGen = [w \in Wemas |-> 1]
    /\ upstream = [w \in Wemas |-> <<>>]
    /\ now = 1
    /\ runs = [i \in RunIds |-> IdleRun]
    /\ nextId = 1
    /\ faults = 0
    /\ invocations = 0
    /\ hist = [s \in PtrSites |-> NoCycle]
    /\ lastClear = NoClear
    /\ trackedBy = [s \in PtrSites |-> [written |-> FALSE, fetch |-> "none", all |-> FALSE]]
    /\ observation \in ObservationInputs
    /\ step = "new"
    /\ validation = NoValidation
    /\ self_event_id = 0
    /\ project = <<>>
    /\ calendar_event = <<>>
    /\ input = observation
    /\ NoCalls

NextObservation ==
    \/ Observation_init
    \/ create_calendar
    \/ create_project

SpecObservation == InitObservation /\ [][NextObservation]_vars

\* the tracking table under calls of its set and its get, in any order
InitTracker ==
    /\ calendar = {}
    /\ projects = {}
    /\ tracking = [s \in PtrSites |-> None]
    /\ proxyGen = [w \in Wemas |-> 1]
    /\ upstream = [w \in Wemas |-> <<>>]
    /\ now = 1
    /\ runs = [i \in RunIds |-> IdleRun]
    /\ nextId = 1
    /\ faults = 0
    /\ invocations = 0
    /\ hist = [s \in PtrSites |-> NoCycle]
    /\ lastClear = NoClear
    /\ trackedBy = [s \in PtrSites |-> [written |-> FALSE, fetch |-> "none", all |-> FALSE]]
    /\ NoObservation
    /\ NoCalls

NextTracker ==
    \/ SetTracked
    \/ GetTracked

SpecTracker == InitTracker /\ [][NextTracker]_vars

\* the read path: the proxy of mrc holds a schedule, and the functions of the read
\* path are called with any arguments
InitPreview ==
    /\ calendar = {}
    /\ projects = {}
    /\ tracking = [s \in PtrSites |-> None]
    /\ proxyGen = [w \in Wemas |-> 1]
    /\ upstream \in {[w \in Wemas |-> IF w \in ScheduledWemas THEN sched ELSE <<>>] :
                        sched \in UNION {SchedulesOf(w) : w \in ScheduledWemas}}
    /\ now = 1
    /\ runs = [i \in RunIds |-> IdleRun]
    /\ nextId = 1
    /\ faults = 0
    /\ invocations = 0
    /\ hist = [s \in PtrSites |-> NoCycle]
    /\ lastClear = NoClear
    /\ trackedBy = [s \in PtrSites |-> [written |-> FALSE, fetch |-> "none", all |-> FALSE]]
    /\ NoObservation
    /\ NoCalls

NextPreview ==
    \/ CallGetFullSchedule
    \/ CallGetFormattedObservations
    \/ CallImportGetFormattedObservations

SpecPreview == InitPreview /\ [][NextPreview]_vars

\* one request to the calendar API, over every store of up to MaxHandlerEvents
\* reservations
InitHandler ==
    /\ calendar \in {S \in SUBSET HandlerEvents :
                        Cardinality(S) <= MaxHandlerEvents /\ UniqueKeys(S)}
    /\ projects = {}
    /\ tracking = [s \in PtrSites |-> None]
    /\ proxyGen = [w \in Wemas |-> 1]
    /\ upstream = [w \in Wemas |-> <<>>]
    /\ now = 1
    /\ runs = [i \in RunIds |-> IdleRun]
    /\ nextId = 1
    /\ faults = 0
    /\ invocations = 0
    /\ hist = [s \in PtrSites |-> NoCycle]
    /\ lastClear = NoClear
    /\ trackedBy = [s \in PtrSites |-> [written |-> FALSE, fetch |-> "none", all |-> FALSE]]
    /\ NoObservation
    /\ NoCalls

NextHandler ==
    \/ deleteEventById
    \/ modifyEvent

SpecHandler == InitHandler /\ [][NextHandler]_vars

TypeOK ==
    /\ UniqueKeys(calendar)
    /\ faults \in 0..MaxFaults
    /\ \A s \in PtrSites : tracking[s] = None \/ tracking[s] \in {IsoZ(g) : g \in 1..MaxGen}

\* -------------------------------------------------------------- claims
StoreWrites == {"cal_delete", "cal_put", "proj_create", "proj_delete", "track_put"}

\* a run whose current cycle has read both times
HasRead(r) == r.pc # "done" /\ r.trackedRead # "none"

\* both times present and the proxy's not later than the tracked one
NotLater(r) ==
    IF r.proxy = <<>> \/ r.tracked = <<>> THEN FALSE ELSE r.proxy[1] <= r.tracked[1]

\* C1: a cycle whose proxy time and tracked time are both present, the proxy time not
\* later, ends 'already up to date' having fetched, deleted and written nothing; any
\* other cycle goes on to clear, fetch and create, and ends 'Updated' only after all
\* three ran.
C1_NoOpIffUpToDate ==
    \A i \in RunIds :
        LET r == runs[i] IN
        HasRead(r) =>
            IF NotLater(r)
            THEN r.pc = "end" /\ r.result = "uptodate" /\ r.eff = {}
            ELSE \/ r.pc \in {"clear", "fetch", "create", "record", "raised"}
                 \/ /\ r.pc = "end" /\ r.result = "updated"
                    /\ lastClear.site = r.site
                    /\ r.fetch # "none"
                    /\ r.attempted = 1..Len(r.sched)

C1_Witness ==
    \E i \in RunIds :
        /\ runs[i].pc = "end" /\ runs[i].result = "uptodate"
        /\ runs[i].proxy = runs[i].tracked

\* a finished cycle of a site whose previous cycle read the same proxy time
SameTimeAgain(r) ==
    /\ r.pc \in {"end", "raised"}
    /\ r.site \in PtrSites
    /\ r.proxy # <<>>
    /\ hist[r.site].outcome # "none"
    /\ hist[r.site].proxy = r.proxy

C3_UserReservationsKept ==
    [][\A x \in calendar : x.origin # "LCO" => x \in calendar']_vars

C3_Witness ==
    \E x \in calendar : \E y \in calendar :
        /\ x.origin # "LCO"
        /\ lastClear.site = x.site /\ StrGT(x.end, lastClear.cutoff)
        /\ lastClear.deleted # {}
        /\ y.site = x.site /\ y.event_id > 0

\* C4: clear_old_schedule(site, cutoff) leaves in the calendar exactly the reservations
\* it found there that are of another site, of another origin than 'LCO', or end at or
\* before the cutoff, whatever the pages of the query.
C4_ClearDeletesExactly ==
    \A i \in RunIds :
        runs[i].pc = "fetch" =>
            /\ lastClear.site = runs[i].site
            /\ calendar = {x \in lastClear.before :
                              ~(/\ x.site = lastClear.site
                                /\ x.origin = "LCO"
                                /\ StrGT(x.end, lastClear.cutoff))}

C4_Witness ==
    \E i \in RunIds : \E x \in calendar :
        /\ runs[i].pc = "fetch"
        /\ x.site = lastClear.site /\ x.origin = "LCO"
        /\ lastClear.deleted # {}
        /\ lastClear.pages > 1

\* C5: clear_old_schedule returns the project id of every reservation it deleted.
C5_EveryDeletedProjectCollected ==
    lastClear.returned = {x.project_id : x \in lastClear.deleted}

\* C6: the request to delete-scheduler-projects holds no sentinel ('none', 'none#') and
\* holds every other project id that clear_old_schedule collected.
C6_RequestWithoutSentinels ==
    lastClear.called =>
        /\ \A p \in lastClear.request :
              p \in lastClear.returned /\ p # <<"none">> /\ p # <<"none", "#", "">>
        /\ \A p \in lastClear.returned :
              (p # <<"none">> /\ p # <<"none", "#", "">>) => p \in lastClear.request

C6_Witness ==
    /\ lastClear.called
    /\ <<"none", "#", "">> \in lastClear.returned
    /\ <<"none", "#", "">> \notin lastClear.request

\* C7: when a cycle that fetched its schedule has ended, every observation of the
\* batch was processed, whether or not another one failed.
C7_PerItemIsolation ==
    \A i \in RunIds :
        (runs[i].pc \in {"end", "raised"} /\ runs[i].fetch = "ok")
        => runs[i].attempted = 1..Len(runs[i].sched)

\* C8: an invocation for all sites that has ended holds a result for every configured
\* site.
C8_ResultForEverySite ==
    \A i \in RunIds :
        (runs[i].mode = "all" /\ runs[i].pc \in {"done", "raised"})
        => DOMAIN runs[i].results = PtrSites

\* C9: the tracking table changes only in the record step, which stores the proxy time
\* read at the start of the cycle if there was one and changes nothing otherwise; a
\* last_scheduled answer that is not a 200 or lacks the field gives no proxy time, and
\* the cycle goes on to clear.
C9_RecordStep ==
    [][/\ (\A i \in RunIds : runs[i].pc = "record" => runs'[i] = runs[i])
            => tracking' = tracking
        /\ \A i \in RunIds :
             LET r == runs[i] IN
             /\ (r.pc = "record" /\ runs'[i].pc = "end") =>
                   tracking' = IF r.proxy # <<>>
                               THEN [s \in PtrSites |-> IF s = r.site THEN r.proxy ELSE tracking[s]]
                               ELSE tracking
             /\ (r.pc = "staleness" /\ runs'[i].lastResp \in {"nofield", "non200"}) =>
                   runs'[i].proxy = <<>> /\ runs'[i].pc = "clear"]_vars

C9_Witness ==
    \E i \in RunIds :
        /\ runs[i].pc = "end" /\ runs[i].result = "updated"
        /\ runs[i].lastResp = "non200"
        /\ tracking[runs[i].site] # <<>>
        /\ lastClear.deleted # {}

\* C10: a tracking record was written by a cycle that obtained the schedule (a 200) and
\* persisted the reservation and the project of every observation in it.
C10_TrackedOnlyAfterImport ==
    \A s \in PtrSites :
        trackedBy[s].written => trackedBy[s].fetch = "ok" /\ trackedBy[s].all

\* a cycle that ended with an exception after clear_old_schedule had begun and before
\* the record step
AbortedAfterClear(r) ==
    /\ r.pc = "raised"
    /\ r.trackedRead # "none"
    /\ (r.fetch = "none" \/ r.idx <= Len(r.sched))

\* C11: after a cycle of a site aborted between the clear step and the record step, the
\* proxy's last_schedule_time is not up to date against the site's tracking record, so
\* the next cycle of the site clears and creates again.
C11_AbortedCycleIsRetried ==
    \A i \in RunIds :
        AbortedAfterClear(runs[i]) =>
            ~UpToDate(IsoZ(proxyGen[WemaOf(runs[i].site)]), tracking[runs[i].site])

\* C12: the calendar never holds two LCO reservations of a site for the same upstream
\* observation, also when two cycles of the site overlap.
C12_NoDuplicateImport ==
    \A a, b \in calendar :
        ( /\ a.origin = "LCO" /\ b.origin = "LCO"
          /\ a.site = b.site /\ a.start = b.start /\ a.end = b.end
          /\ a.project_id = b.project_id )
        => a = b

\* C13: when a cycle of site s that cleared and fetched its schedule (a 200) returns,
\* the LCO reservations of s that end after the cutoff are as many as the fetched
\* observations, one with the start and the end of each.
C13_ReservationsMatchSchedule ==
    \A i \in RunIds :
        LET r == runs[i]
            R == {x \in calendar : /\ x.site = r.site /\ x.origin = "LCO"
                                   /\ StrGT(x.end, lastClear.cutoff)}
        IN  (r.pc = "end" /\ r.result = "updated" /\ r.fetch = "ok") =>
               /\ Cardinality(R) = Len(r.sched)
               /\ \A k \in 1..Len(r.sched) :
                     \E x \in R : x.start = r.sched[k].start /\ x.end = r.sched[k].end

C13_Witness ==
    \E i \in RunIds :
        /\ runs[i].pc = "end" /\ runs[i].result = "updated" /\ runs[i].fetch = "ok"
        /\ Len(runs[i].sched) = MaxObs
        /\ lastClear.site = runs[i].site /\ lastClear.deleted # {}

C15_UnknownSubsiteFailsFast ==
    [][\A i \in RunIds :
          LET r == runs[i] IN
          (r.pc = "staleness" /\ runs'[i] # r) =>
              IF r.site \in PtrSites
              THEN runs'[i].result # "unknown"
              ELSE /\ runs'[i].pc = "end" /\ runs'[i].result = "unknown"
                   /\ runs'[i].eff = {}
                   /\ runs'[i].lastResp = "none" /\ runs'[i].trackedRead = "none"
                   /\ UNCHANGED <<calendar, projects, tracking, faults>>]_vars

C15_Witness ==
    \E i \in RunIds :
        /\ runs[i].pc = "end" /\ runs[i].result = "unknown"
        /\ runs[i].site \notin PtrSites
        /\ calendar # {}

\* C16: an invocation for all sites that returns has run the cycle once for each of
\* mrc1, mrc2, aro1, eco1, eco2 and holds one result per site; an invocation with the
\* subsite path parameter that returns has run the cycle for that subsite only and
\* answers with status 200.
C16_DriverRunsEachSiteOnce ==
    \A i \in RunIds :
        LET r == runs[i] IN
        r.pc = "done" =>
            IF r.mode = "all"
            THEN /\ r.ran = <<"mrc1", "mrc2", "aro1", "eco1", "eco2">>
                 /\ DOMAIN r.results = {"mrc1", "mrc2", "aro1", "eco1", "eco2"}
            ELSE /\ r.ran = <<r.site>>
                 /\ r.results = <<>>
                 /\ r.status = 200

C16_Witness ==
    \E i \in RunIds :
        /\ runs[i].pc = "done" /\ runs[i].mode = "all"
        /\ runs[i].results["mrc1"] = "updated"
        /\ runs[i].results["eco2"] = "updated"

\* C17: an observation that validate_observation_format accepts is translated to a
\* project and to a reservation without an exception.
C17_ValidObservationTranslates ==
    validation.outcome = "true" => step # "raised_translation"

\* C18: for an observation that validate_observation_format rejects, no reservation
\* and no project is persisted.
C18_InvalidObservationNotImported ==
    validation.outcome = "false" => (calendar = {} /\ projects = {})

\* C19: for an observation that lacks required top-level keys,
\* validate_observation_format returns False with the reason 'Missing keys' and the
\* list of the keys it lacks, having inspected no configuration.
C19_MissingKeysReported ==
    (step \notin {"none", "new"} /\ SeqToSet(required_keys) \ observation.keys # {}) =>
        /\ validation.outcome = "false"
        /\ validation.reason =
              <<"Missing keys">> \o SelectSeq(required_keys, LAMBDA k : k \notin observation.keys)
        /\ validation.inspected = 0

C19_Witness ==
    /\ step \notin {"none", "new"}
    /\ Cardinality(SeqToSet(required_keys) \ observation.keys) = MaxMissing
    /\ "request" \in observation.keys
    /\ validate_configuration(observation.request.configurations[1]).outcome = "raise"
    /\ validation.outcome = "false"

\* C20: the exposures, remaining and project_data of a translated project are as long
\* as the instrument configs of the first configuration, each remaining entry is the
\* count of the exposure set at its index and each project_data entry is empty.
C20_ProjectListsAligned ==
    step \in {"calendar", "done"} =>
        LET n == Len(observation.request.configurations[1].instrument_configs) IN
        /\ Len(project.exposures) = n
        /\ Len(project.remaining) = n
        /\ Len(project.project_data) = n
        /\ \A k \in 1..n : /\ project.remaining[k] = project.exposures[k].count
                            /\ project.project_data[k] = <<>>

C20_Witness ==
    /\ step = "done"
    /\ Len(project.exposures) = MaxInsts
    /\ \E k \in 1..MaxInsts :
          ~IsInt(observation.request.configurations[1].instrument_configs[k].exposure_count)

\* the target of the first configuration of an observation record
FirstTarget(obs) == obs.request.configurations[1].target

\* an Observation whose create_calendar translated it
Translated == step \in {"calendar", "done"}

\* C21: translating an observation leaves the input record unchanged: every field of
\* the record, request.configurations[0].target.ra included, is the same after the
\* translation as before, and translating the record again yields an equal project.
C21_TranslationKeepsInput ==
    Translated =>
        /\ observation = input
        /\ FullProject(observation, project.project_sites[1], self_event_id) = project

\* C22: the reservation and the project of a translated observation are linked and
\* tagged consistently: the same project id, '{name}#{created truncated to seconds}';
\* scheduled_with_events is [event_id]; origin 'LCO'; creator_id '{submitter}#LCO'; the
\* site is the logical site of the observation's (site, telescope).
C22_ReservationLinkedToProject ==
    Translated =>
        /\ calendar_event.project_id = project.project_id
        /\ project.project_id = <<input.name, "#", <<input.created[1], "Z">> >>
        /\ project.scheduled_with_events = <<calendar_event.event_id>>
        /\ calendar_event.origin = "LCO"
        /\ calendar_event.creator_id = <<input.submitter, "#LCO">>
        /\ calendar_event.site = SITE_FROM_WEMA_AND_TELESCOPE_ID[input.site][input.telescope]
        /\ calendar_event \in calendar

C22_Witness ==
    /\ step = "done"
    /\ input.created = CreatedAtMicro("c")
    /\ input.telescope = "0m61"
    /\ calendar_event.site = "mrc2"
    /\ project.project_id \in projects

\* C23: the reservation of an observation whose observation_type is RAPID_RESPONSE or
\* TIME_CRITICAL has the project_priority 'time_critical'; the reservation of any other
\* observation has the project_priority 'standard'.
C23_TimeCriticalElevated ==
    Translated =>
        calendar_event.project_priority =
            IF input.observation_type \in {"RAPID_RESPONSE", "TIME_CRITICAL"}
            THEN "time_critical" ELSE "standard"

\* C24: the ra of the translated project's target is the ra of the observation's
\* target divided by 15 (150 yields 10), and the division is made once for one
\* Observation, although create_ptr_resources runs create_calendar and create_project.
C24_RaDividedOnce ==
    Translated =>
        LET hours == project.project_targets[1].ra_value
            degrees == FirstTarget(input).ra_value
        IN  /\ hours[1] * degrees[2] * 15 = degrees[1] * hours[2]
            /\ degrees = <<150, 1>> => hours = <<10, 1>>
            /\ FirstTarget(observation).ra_value = hours

C24_Witness ==
    /\ step = "done"
    /\ FirstTarget(input).ra_value = <<150, 1>>
    /\ project.project_targets[1].ra_value = <<10, 1>>
    /\ project.project_id \in projects

\* C25: after update_last_schedule_time(site, t), get_last_tracked_schedule_time(site)
\* returns t until the next update of the site; for a site that was never set it
\* returns None; repeating an update leaves the tracked time as it is. (The reads are
\* those that the table answers; C26 is about the others.)
C25_TrackerRoundTrip ==
    /\ [](tracker.call = "get" /\ tracker.status = "ok" => tracker.got = tracker.set[tracker.site])
    /\ [][(/\ tracker'.call = "set" /\ tracker'.status = "ok"
           /\ tracker.set[tracker'.site] = tracker'.value) => tracking' = tracking]_vars

C25_Witness ==
    /\ tracker.call = "get" /\ tracker.status = "ok"
    /\ tracker.got = IsoZ(1)
    /\ \E s \in PtrSites : s # tracker.site /\ tracker.set[s] = IsoZ(MaxGen)
    /\ \E s \in PtrSites : tracker.set[s] = None

\* C26: get_last_tracked_schedule_time does not raise: when the read of the tracking
\* table fails it returns None, and the cycle goes on as for a site that was never
\* tracked, to the clearing and the import, and does not answer 'up to date'.
C26_TrackerReadFailsSoft ==
    [][\A i \in RunIds :
          (runs[i].pc = "staleness" /\ runs'[i].trackedRead = "error") =>
             /\ runs'[i].tracked = None
             /\ runs'[i].pc = "clear"]_vars

C26_Witness ==
    \E i \in RunIds :
        /\ runs[i].trackedRead = "error"
        /\ runs[i].pc = "end" /\ runs[i].result = "updated"
        /\ UpToDate(runs[i].proxy, tracking[runs[i].site])
        /\ trackedBy[runs[i].site].written
        /\ Len(runs[i].ran) = 1 /\ invocations = MaxInvocations

\* C27: a fetch of the schedule fails soft: when the upstream is unavailable (a status
\* other than 200, or no connection) get_schedule returns an empty sequence and raises
\* nothing, and the cycle goes on with nothing to import.
C27_FetchFailsSoft ==
    \A i \in RunIds :
        /\ runs[i].error # "unreachable"
        /\ runs[i].fetch = "non200" => runs[i].sched = <<>>

\* the calls of get_formatted_observations, of either module
FormattedCalls ==
    {"scheduler_utils.get_formatted_observations",
     "import_schedules.get_formatted_observations"}

\* what the proxy holds for the arguments of the last call of the read path
Asked ==
    ProxySchedule(preview.wema, preview.telescope_id,
                  IF preview.start = None THEN StrfTime(now) ELSE preview.start,
                  IF preview.end = None THEN StrfTime(now + Days21) ELSE preview.end)

\* C28: get_full_schedule with a state filter returns exactly the observations of the
\* upstream result whose state is in the filter, in upstream order; without a filter
\* (None) it returns the upstream result as it is.
C28_FullScheduleFilter ==
    (preview.fn = "get_full_schedule" /\ preview.resp = "ok") =>
        IF preview.observation_states.given
        THEN /\ \A k \in 1..Len(preview.result) :
                   preview.result[k].state \in preview.observation_states.states
             /\ preview.result =
                   SelectSeq(Asked, LAMBDA o : o.state \in preview.observation_states.states)
        ELSE preview.result = Asked

C28_Witness ==
    /\ preview.fn = "get_full_schedule" /\ preview.resp = "ok"
    /\ preview.observation_states = [given |-> TRUE, states |-> {"PENDING"}]
    /\ Len(Asked) = MaxObs
    /\ Len(preview.result) = 1
    /\ preview.result[1] = Asked[2]

\* C29: get_formatted_observations for a logical site that is not in the topology
\* returns an empty sequence without resolving a secret or calling the upstream fetch;
\* for a mapped site, an exception raised while fetching or formatting yields an empty
\* sequence and does not reach the caller.
C29_PreviewFailsSoft ==
    preview.fn \in FormattedCalls =>
        /\ ~preview.raised
        /\ preview.ptr_site \notin DOMAIN PTR_SITE_TO_WEMA_TELESCOPE =>
              preview.result = <<>> /\ preview.calls = <<>>
        /\ (preview.resp \in {"no_secret", "unreachable"} \/ preview.caught # "none") =>
              preview.result = <<>>

C29_Witness ==
    /\ preview.fn \in FormattedCalls
    /\ preview.ptr_site \in DOMAIN PTR_SITE_TO_WEMA_TELESCOPE
    /\ preview.caught = "KeyError"
    /\ Len(Asked) = MaxObs
    /\ Asked[1].shape = "valid"
    /\ preview.result = <<>>

\* C30: for a mapped site, get_formatted_observations returns one entry for each
\* fetched observation, in order, with event_id = str(id), start and end copied,
\* creator = submitter, creator_id = '{submitter}#LCO', reservation_type 'observation',
\* origin 'LCO', site = the requested logical site and the observation under
\* observation_data; the fetch is made for the site's (wema, telescope), the given
\* window and all known observation states.
C30_PreviewFormats ==
    (/\ preview.fn \in FormattedCalls
     /\ preview.ptr_site \in DOMAIN PTR_SITE_TO_WEMA_TELESCOPE
     /\ preview.resp = "ok" /\ preview.caught = "none") =>
        LET fetched == SelectSeq(Asked, LAMBDA o : o.state \in ALL_OBSERVATION_STATES) IN
        /\ preview.wema = PTR_SITE_TO_WEMA_TELESCOPE[preview.ptr_site][1]
        /\ preview.telescope_id = <<PTR_SITE_TO_WEMA_TELESCOPE[preview.ptr_site][2]>>
        /\ Len(preview.result) = Len(fetched)
        /\ \A k \in 1..Len(preview.result) :
              LET entry == preview.result[k] IN
              /\ entry.event_id = <<fetched[k].id>>
              /\ entry.start = fetched[k].start /\ entry.end = fetched[k].end
              /\ entry.creator = fetched[k].submitter
              /\ entry.creator_id = <<fetched[k].submitter, "#LCO">>
              /\ entry.reservation_type = "observation" /\ entry.origin = "LCO"
              /\ entry.site = preview.ptr_site
              /\ entry.observation_data = fetched[k]

\* the same, for scheduler_utils.get_formatted_observations alone (it holds)
SchedulerUtilsFormats ==
    preview.fn = "scheduler_utils.get_formatted_observations" =>
        /\ C30_PreviewFormats
        /\ preview.ptr_site \in DOMAIN PTR_SITE_TO_WEMA_TELESCOPE =>
              preview.observation_states = [given |-> TRUE, states |-> ALL_OBSERVATION_STATES]

\* C31: the site topology is a bijection: the reverse lookup of the site of a
\* configured (wema, telescope) returns that pair, every logical site has exactly one
\* (wema, telescope), the per-WEMA list of the driver holds exactly the sites of the
\* WEMA, ('mrc', '0m31') is 'mrc1', the reservation of an observation carries the site
\* of its (site, telescope), and the lookup of an unconfigured telescope raises.
C31_TopologyBijection ==
    LET configured == {p \in Wemas \X {"0m31", "0m61", "0m3", "0m43", "0m28"} :
                           p[2] \in DOMAIN SITE_FROM_WEMA_AND_TELESCOPE_ID[p[1]]}
        site_of(p) == SITE_FROM_WEMA_AND_TELESCOPE_ID[p[1]][p[2]]
    IN  /\ \A p \in configured : PTR_SITE_TO_WEMA_TELESCOPE[site_of(p)] = p
        /\ \A s \in DOMAIN PTR_SITE_TO_WEMA_TELESCOPE :
              Cardinality({p \in configured : site_of(p) = s}) = 1
        /\ DOMAIN PTR_SITES_PER_WEMA = Wemas
        /\ \A w \in Wemas :
              /\ SeqToSet(PTR_SITES_PER_WEMA[w]) = {site_of(p) : p \in {q \in configured : q[1] = w}}
              /\ Len(PTR_SITES_PER_WEMA[w]) = Cardinality(SeqToSet(PTR_SITES_PER_WEMA[w]))
        /\ SITE_FROM_WEMA_AND_TELESCOPE_ID["mrc"]["0m31"] = "mrc1"
        /\ (step # "new" /\ {"site", "telescope"} \subseteq input.keys
                /\ <<input.site, input.telescope>> \notin configured) => step = "raised_init"
        /\ (step \in {"calendar", "done"}) =>
              /\ <<input.site, input.telescope>> \in configured
              /\ calendar_event.site = site_of(<<input.site, input.telescope>>)
              /\ PTR_SITE_TO_WEMA_TELESCOPE[calendar_event.site] = <<input.site, input.telescope>>

C31_Witness ==
    /\ step = "done"
    /\ input.site = "mrc" /\ input.telescope = "0m31"
    /\ calendar_event.site = "mrc1"

\* an observation of a telescope that is not configured: the constructor raised
C31_UnconfiguredRaises ==
    /\ step = "raised_init"
    /\ {"site", "telescope"} \subseteq input.keys
    /\ input.site \in Wemas
    /\ input.telescope \notin DOMAIN SITE_FROM_WEMA_AND_TELESCOPE_ID[input.site]
    /\ validation.outcome # "raise"

\* C32: a reservation and its project stay paired one to one: when no invocation is
\* in progress, also after cycles in which a call that creates or deletes a project
\* failed, every LCO reservation of the store whose project was not removed by hand
\* references a project the projects backend holds, and every project of the backend
\* is referenced by a stored LCO reservation.
C32_PairedOneToOne ==
    (\A i \in RunIds : runs[i].pc \in {"idle", "done", "raised"}) =>
        /\ \A r \in calendar :
              (r.origin = "LCO" /\ r.project_id \notin {SentinelNone, SentinelNoneHash}) =>
                  r.project_id \in projects
        /\ \A p \in projects : \E r \in calendar : r.origin = "LCO" /\ r.project_id = p

\* the observation record cut down to the first configuration of its request
OnlyFirstConfiguration(obs) == [obs EXCEPT !.request.configurations = <<@[1]>>]

\* a project without the copy of the observation it was made from
WithoutObservation(proj) == [proj EXCEPT !.full_lco_observation = <<>>]

\* C33: an imported observation yields exactly one reservation and exactly one
\* project, and both are what the first configuration alone yields, however many
\* configurations the request holds.
C33_OnePairFromFirstConfiguration ==
    step = "done" =>
        /\ calendar = {calendar_event}
        /\ projects = {project.project_id}
        /\ Cardinality(calendar) = 1 /\ Cardinality(projects) = 1
        /\ Len(project.project_targets) = 1
        /\ WithoutObservation(project) =
              WithoutObservation(FullProject(OnlyFirstConfiguration(input),
                                             calendar_event.site, self_event_id))
        /\ calendar_event = translate_to_calendar(OnlyFirstConfiguration(input), self_event_id)

C33_Witness ==
    /\ step = "done"
    /\ Len(input.request.configurations) = MaxConfigs
    /\ input.request.configurations[MaxConfigs] # input.request.configurations[1]
    /\ input.request.configurations[MaxConfigs].target # input.request.configurations[1].target
    /\ Cardinality(calendar) = 1 /\ Cardinality(projects) = 1

\* C34: validate_observation_format is total: for every record that has all the
\* required top-level keys it returns (bool, reason) and never raises, also when an
\* instrument config lacks optical_elements or extra_params; a False comes with the
\* reason of the first configuration that fails.
C34_ValidationTotal ==
    (step \notin {"none", "new"} /\ SeqToSet(required_keys) \subseteq input.keys) =>
        /\ validation.outcome \in {"true", "false"}
        /\ validation.outcome = "false" =>
              /\ validation.inspected \in 1..Len(input.request.configurations)
              /\ \A k \in 1..(validation.inspected - 1) :
                    validate_configuration(input.request.configurations[k]).outcome = "true"
              /\ validate_configuration(input.request.configurations[validation.inspected]).outcome
                    = "false"

\* C35: the tracked schedule time of a site never decreases: over any sequence and
\* any interleaving of cycles, each write to a site's tracking record stores a
\* timestamp that is not earlier than the one it replaces.
C35_TrackedTimeMonotone ==
    [][\A s \in PtrSites :
          (tracking'[s] # tracking[s] /\ tracking[s] # None) =>
              (tracking'[s] # None /\ ~StrGT(tracking[s], tracking'[s]))]_vars

\* C36: a cycle for a site leaves every other site untouched: a step of the cycle
\* for site s deletes no reservation of another site, creates reservations of site s
\* only (the proxy honours the telescope filter), and writes no tracking record but
\* that of s.
C36_CycleFrame ==
    [][\A i \in RunIds :
          (runs'[i] # runs[i]
              /\ runs[i].pc \in {"staleness", "clear", "fetch", "create", "record"}) =>
                /\ \A x \in calendar \ calendar' : x.site = runs[i].site
                /\ \A x \in calendar' \ calendar : x.site = runs[i].site
                /\ \A t \in PtrSites \ {runs[i].site} : tracking'[t] = tracking[t]]_vars

\* the cycle for mrc2 has cleared, created a reservation of mrc2 and is about to
\* write the tracking record, while the store holds an imported reservation of mrc1
\* that ends after now and mrc1's tracking record is written
C36_Witness ==
    \E i \in RunIds :
        /\ runs[i].site = "mrc2" /\ runs[i].pc = "record"
        /\ lastClear.site = "mrc2"
        /\ \E x \in calendar : x.site = "mrc2" /\ x.origin = "LCO"
        /\ \E x \in calendar :
              x.site = "mrc1" /\ x.origin = "LCO" /\ StrGT(x.end, StrfTime(now))
        /\ tracking["mrc1"] # None

\* the stored LCO reservations of a site, and the PENDING observations the proxy
\* holds for it, as (project id, start, end)
StoredSchedule(s) ==
    {<<x.project_id, x.start, x.end>> : x \in {y \in calendar : y.site = s /\ y.origin = "LCO"}}

PendingSchedule(s) ==
    LET sched == get_schedule(WemaOf(s), TelescopeOf(s), "ok")
    IN  {<<translate_to_project(sched[k]), sched[k].start, sched[k].end>> : k \in 1..Len(sched)}

\* every configured site tracks the proxy's last_schedule_time and stores the
\* reservations of the proxy's PENDING schedule, one for each observation
Converged ==
    \A s \in PtrSites :
        /\ tracking[s] = IsoZ(proxyGen[WemaOf(s)])
        /\ StoredSchedule(s) = PendingSchedule(s)
        /\ Cardinality({y \in calendar : y.site = s /\ y.origin = "LCO"})
              = Len(get_schedule(WemaOf(s), TelescopeOf(s), "ok"))

\* once converged, no step changes a table
NoOpOnceConverged ==
    [][Converged => (calendar' = calendar /\ projects' = projects /\ tracking' = tracking)]_vars

\* C37: convergence: under a fair periodic trigger, while the proxy's
\* last_schedule_time stays the same and remote calls succeed, eventually every
\* configured site's tracked time equals it and its stored LCO reservations match the
\* proxy's PENDING schedule, and from then on every cycle is a no-op.
C37_Convergence ==
    /\ <>[]Converged
    /\ NoOpOnceConverged

\* a schedule whose observations all have the keys the translation reads
WellFormedUpstream ==
    \A w \in Wemas : \A k \in 1..Len(upstream[w]) :
        upstream[w][k].shape = "valid" /\ KnownTelescope(upstream[w][k])

\* the schedules whose observations are all well-formed do converge
ConvergesWhenWellFormed == WellFormedUpstream => <>[]Converged

\* the reservation a handled request named, in the store as it was before the request
Target == {x \in handled.before : KeyOf(x) = <<handled.event_id, handled.start>>}

\* the requester has the admin role or is the creator of the reservation named
Permitted ==
    \/ "admin" \in handled.userRoles
    \/ \E x \in Target : x.creator_id # NoCreator /\ x.creator_id = handled.principalId

\* C38: deleteEventById removes a reservation only when the requester has the admin
\* role or is the reservation's creator_id; for any other requester it answers 403
\* and the store stays as it was; a permitted delete removes the reservation named
\* and no other.
C38_DeleteOnlyByCreatorOrAdmin ==
    handled.fn = "deleteEventById" =>
        /\ calendar # handled.before => Permitted
        /\ ~Permitted => (handled.statusCode = 403 /\ calendar = handled.before)
        /\ handled.statusCode \in {200, 403} /\ ~handled.raised
        /\ handled.statusCode = 200 => calendar = handled.before \ Target
        /\ handled.statusCode = 403 => calendar = handled.before

\* a user without the admin role asks to delete another user's reservation
C38_Witness ==
    /\ handled.fn = "deleteEventById"
    /\ "admin" \notin handled.userRoles
    /\ \E x \in Target : x.creator_id \in Principals \ {handled.principalId}
    /\ handled.statusCode = 403
    /\ calendar = handled.before

\* a user without the admin role deleted their own reservation
C38_CreatorDeletes ==
    /\ handled.fn = "deleteEventById"
    /\ "admin" \notin handled.userRoles
    /\ \E x \in Target : x.creator_id = handled.principalId
    /\ handled.statusCode = 200
    /\ calendar = handled.before \ Target /\ calendar # handled.before

C39_Refused ==
    /\ handled.fn = "modifyEvent"
    /\ "admin" \notin handled.userRoles
    /\ \E x \in Target : x.creator_id \in Principals \ {handled.principalId}
    /\ handled.statusCode = 403
    /\ calendar = handled.before

====
